---- MODULE Spec2Model ----
(***************************************************************************)
(* LinkNet: wire messages, network manager sessions and the chunked        *)
(* file-transfer manager, modelled from the C++ sources.                   *)
(*                                                                         *)
(* Strings and byte buffers are sequences of byte values (0..255).         *)
(* PeerId is a 32-byte array, MessageId a 16-byte array.                   *)
(***************************************************************************)
EXTENDS Integers, Sequences, FiniteSets, TLC

VARIABLES
  msg_in,        \* the message object handed to Serialize()
  msg_buf,       \* the ByteBuffer Serialize() returned
  msg_out,       \* what MessageFactory::CreateFromBuffer returned for msg_buf
  msg_pc,        \* position of the round trip: "new", "serialized", "parsed"
  tcp,           \* the TCP connection between the two nodes: "none", "up", "down"
  pending,       \* nodes whose connect/accept completion handler has yet to run
  peer_sessions, \* per node: AsioNetworkManager::_peer_sessions, PeerId -> session
  wire,          \* per node: the byte stream in flight towards that node
  outgoing,      \* per node: _outgoing_transfers, <<peer, file_id>> -> TransferInfo
  incoming,      \* per node: _incoming_transfers, <<peer, file_id>> -> TransferInfo
  fs,            \* per node: the regular files on disk, path -> content
  chunk_size,    \* per node: BasicFileTransferManager::_chunk_size
  mutex_dead,    \* per node: a thread hangs in lock() while owning _transfers_mutex
  log,           \* per node: callbacks invoked, status marks and sends, in order
  last,          \* the operation the last step performed, with its arguments
  tainted,       \* per node: incoming keys that were written a chunk whose data
                 \* is not the source's bytes at that chunk's offset
  dropped,       \* per node: incoming keys that had a duplicate chunk dropped
  ops,           \* number of API calls and injected messages so far
  message_callback, \* per node: AsioNetworkManager::_message_callback
  is_running,    \* per node: "running", "stopping" (Stop() has cleared the
                 \* table and not yet stopped the io context), "stopped"
  threads,       \* per calling thread: its position inside
                 \* PeerSession::SendMessage and the message it is sending
  chat_history,  \* per node: ChatManager::_chat_history, PeerId -> ChatInfos
  sessions,      \* the PeerSession objects node A's handlers have created
                 \* when the session table holds pointers to them
  discovered_peers, \* PeerDiscovery::_discovered_peers, key -> last seen
  now,           \* the steady clock, in seconds
  slept,         \* seconds the announce loop has slept since its last send
  running        \* PeerDiscovery::_running of node A

msgVars == <<msg_in, msg_buf, msg_out, msg_pc>>

netVars == <<tcp, pending, peer_sessions, wire>>

ghostVars == <<tainted, dropped>>
ftVars == <<outgoing, incoming, fs, chunk_size, mutex_dead, log, last, ghostVars, ops>>

mgrVars == <<message_callback, is_running, threads>>

discVars == <<discovered_peers, now, slept, running>>

appVars == <<chat_history, sessions, discVars>>

vars == <<msgVars, netVars, ftVars, mgrVars, appVars>>

----------------------------------------------------------------------------
(* types.h *)

CHAT_MESSAGE == 0
FILE_TRANSFER_REQUEST == 1
FILE_TRANSFER_RESPONSE == 2
FILE_CHUNK == 3
FILE_TRANSFER_COMPLETE == 4
PEER_DISCOVERY == 5
PING == 6
PONG == 7
CONNECTION_NOTIFICATION == 8

\* enum class ConnectionStatus : uint8_t
DISCONNECTED == 0
CONNECTING == 1
CONNECTED == 2
ERROR == 3

PeerIdLen == 32
MessageIdLen == 16

\* nullptr / Deserialize() returned false
NoMessage == [type |-> "nullptr"]

----------------------------------------------------------------------------
(* Byte order helpers: htobe32/htobe64 followed by memcpy into the buffer,  *)
(* and memcpy out followed by be32toh/be64toh.                              *)

\* the w bytes of n, most significant first; n is truncated to w bytes as
\* the static_cast to uint32_t / uint64_t does
RECURSIVE ToBE(_, _)
ToBE(n, w) == IF w = 0 THEN <<>> ELSE ToBE(n \div 256, w - 1) \o <<n % 256>>

RECURSIVE FromBE(_)
FromBE(bytes) ==
  IF Len(bytes) = 0 THEN 0
  ELSE 256 * FromBE(SubSeq(bytes, 1, Len(bytes) - 1)) + bytes[Len(bytes)]

\* data.begin() + a .. data.begin() + b (0-based, b exclusive)
Slice(data, a, b) == SubSeq(data, a + 1, b)

----------------------------------------------------------------------------
(* Message::Serialize common prefix: type, sender, id, timestamp (57 bytes) *)

Header(m) ==
  <<m.type>> \o m.sender \o m.id \o ToBE(m.timestamp, 8)

\* ChatMessage::Serialize
ChatSerialize(m) ==
  Header(m) \o ToBE(Len(m.content), 4) \o m.content

\* ChatMessage::Deserialize: the message object after a successful
\* Deserialize, NoMessage when it returns false
ChatDeserialize(data) ==
  LET HEADER_SIZE == 1 + 32 + 16 + 8 + 4 IN
  IF Len(data) < HEADER_SIZE THEN NoMessage
  ELSE IF data[1] # CHAT_MESSAGE THEN NoMessage
  ELSE LET content_len == FromBE(Slice(data, 57, 61)) IN
       IF Len(data) < HEADER_SIZE + content_len THEN NoMessage
       ELSE [type      |-> CHAT_MESSAGE,
             sender    |-> Slice(data, 1, 33),
             id        |-> Slice(data, 33, 49),
             timestamp |-> FromBE(Slice(data, 49, 57)),
             content   |-> Slice(data, HEADER_SIZE, HEADER_SIZE + content_len)]

\* FileTransferRequestMessage::Serialize
FileRequestSerialize(m) ==
  Header(m) \o ToBE(m.file_size, 8) \o ToBE(Len(m.filename), 4) \o m.filename

\* FileTransferRequestMessage::Deserialize
FileRequestDeserialize(data) ==
  LET HEADER_SIZE == 1 + 32 + 16 + 8 + 8 + 4 IN
  IF Len(data) < HEADER_SIZE THEN NoMessage
  ELSE IF data[1] # FILE_TRANSFER_REQUEST THEN NoMessage
  ELSE LET filename_len == FromBE(Slice(data, 65, 69)) IN
       IF Len(data) < HEADER_SIZE + filename_len THEN NoMessage
       ELSE [type      |-> FILE_TRANSFER_REQUEST,
             sender    |-> Slice(data, 1, 33),
             id        |-> Slice(data, 33, 49),
             timestamp |-> FromBE(Slice(data, 49, 57)),
             file_size |-> FromBE(Slice(data, 57, 65)),
             filename  |-> Slice(data, HEADER_SIZE, HEADER_SIZE + filename_len)]

\* FileChunkMessage::Serialize
FileChunkSerialize(m) ==
  Header(m) \o ToBE(Len(m.file_id), 4) \o m.file_id
            \o ToBE(m.chunk_index, 4) \o ToBE(Len(m.data), 4) \o m.data

\* FileChunkMessage::Deserialize
FileChunkDeserialize(data) ==
  LET MIN_HEADER_SIZE == 1 + 32 + 16 + 8 + 4 IN
  IF Len(data) < MIN_HEADER_SIZE THEN NoMessage
  ELSE IF data[1] # FILE_CHUNK THEN NoMessage
  ELSE LET file_id_len == FromBE(Slice(data, 57, 61)) IN
       IF Len(data) < MIN_HEADER_SIZE + file_id_len + 8 THEN NoMessage
       ELSE LET data_len == FromBE(Slice(data, 65 + file_id_len, 69 + file_id_len)) IN
            IF Len(data) < MIN_HEADER_SIZE + file_id_len + 8 + data_len THEN NoMessage
            ELSE [type        |-> FILE_CHUNK,
                  sender      |-> Slice(data, 1, 33),
                  id          |-> Slice(data, 33, 49),
                  timestamp   |-> FromBE(Slice(data, 49, 57)),
                  file_id     |-> Slice(data, 61, 61 + file_id_len),
                  chunk_index |-> FromBE(Slice(data, 61 + file_id_len, 65 + file_id_len)),
                  data        |-> Slice(data, 69 + file_id_len,
                                        69 + file_id_len + data_len)]

\* FileTransferCompleteMessage::Serialize
FileCompleteSerialize(m) ==
  Header(m) \o ToBE(Len(m.file_id), 4) \o m.file_id
            \o <<IF m.success THEN 1 ELSE 0>>
            \o ToBE(Len(m.error_message), 4) \o m.error_message

\* FileTransferCompleteMessage::Deserialize
FileCompleteDeserialize(data) ==
  LET MIN_HEADER_SIZE == 1 + 32 + 16 + 8 + 4 IN
  IF Len(data) < MIN_HEADER_SIZE THEN NoMessage
  ELSE IF data[1] # FILE_TRANSFER_COMPLETE THEN NoMessage
  ELSE LET file_id_len == FromBE(Slice(data, 57, 61)) IN
       IF Len(data) < MIN_HEADER_SIZE + file_id_len + 5 THEN NoMessage
       ELSE LET error_len == FromBE(Slice(data, 62 + file_id_len, 66 + file_id_len)) IN
            IF Len(data) < MIN_HEADER_SIZE + file_id_len + 5 + error_len THEN NoMessage
            ELSE [type          |-> FILE_TRANSFER_COMPLETE,
                  sender        |-> Slice(data, 1, 33),
                  id            |-> Slice(data, 33, 49),
                  timestamp     |-> FromBE(Slice(data, 49, 57)),
                  file_id       |-> Slice(data, 61, 61 + file_id_len),
                  success       |-> data[61 + file_id_len + 1] # 0,
                  error_message |-> Slice(data, 66 + file_id_len,
                                          66 + file_id_len + error_len)]

\* ConnectionMessage::Serialize. The class is used by the network manager
\* and by main but its definition is not among the sources; the body is the
\* one-byte status code the wire table gives for kind 8.
ConnectionSerialize(m) ==
  Header(m) \o <<m.status>>

\* Message::Serialize, dispatched on the dynamic type
Serialize(m) ==
  CASE m.type = CHAT_MESSAGE            -> ChatSerialize(m)
    [] m.type = FILE_TRANSFER_REQUEST   -> FileRequestSerialize(m)
    [] m.type = FILE_CHUNK              -> FileChunkSerialize(m)
    [] m.type = FILE_TRANSFER_COMPLETE  -> FileCompleteSerialize(m)
    [] m.type = CONNECTION_NOTIFICATION -> ConnectionSerialize(m)

\* MessageFactory::CreateFromBuffer
CreateFromBuffer(data) ==
  IF Len(data) = 0 THEN NoMessage
  ELSE IF Len(data) < 33 THEN NoMessage
  ELSE CASE data[1] = CHAT_MESSAGE          -> ChatDeserialize(data)
         [] data[1] = FILE_TRANSFER_REQUEST -> FileRequestDeserialize(data)
         [] OTHER                           -> NoMessage

----------------------------------------------------------------------------
(* Values the model draws message fields from *)

\* number of distinct PeerIds the random generator is drawn from
NumPeerIds == 2

PeerIdOf(k) == [i \in 1..PeerIdLen |-> IF i = PeerIdLen THEN k ELSE 16 + k]
PeerIds == {PeerIdOf(k) : k \in 1..NumPeerIds}

MessageIdOf(k) == [i \in 1..MessageIdLen |-> IF i = 1 THEN k ELSE 255 - i]
MessageIds == {MessageIdOf(k) : k \in {1, 200}}

\* std::time(nullptr): one-byte, two-byte and four-byte values
Timestamps == {0, 258, 16777216 + 7}

\* strings: "" , "f", "d/f"
Str_empty == <<>>
Str_f == <<102>>
Str_d_f == <<100, 47, 102>>
Strings == {Str_empty, Str_f, Str_d_f}

\* file data buffers
DataBuffers == {<<>>, <<7>>, <<0, 255>>}

ChatMessages ==
  [type : {CHAT_MESSAGE}, sender : PeerIds, id : MessageIds,
   timestamp : Timestamps, content : Strings]

FileRequestMessages ==
  [type : {FILE_TRANSFER_REQUEST}, sender : PeerIds, id : MessageIds,
   timestamp : Timestamps, file_size : {0, 3, 16777216 + 1},
   filename : {Str_f, Str_d_f}]

FileChunkMessages ==
  [type : {FILE_CHUNK}, sender : PeerIds, id : MessageIds,
   timestamp : {258}, file_id : {Str_f, Str_d_f},
   chunk_index : {0, 1, 256}, data : DataBuffers]

FileCompleteMessages ==
  [type : {FILE_TRANSFER_COMPLETE}, sender : PeerIds, id : MessageIds,
   timestamp : {258}, file_id : {Str_f, Str_d_f},
   success : BOOLEAN, error_message : {Str_empty, Str_d_f}]

ConnectionMessages ==
  [type : {CONNECTION_NOTIFICATION}, sender : PeerIds, id : MessageIds,
   timestamp : {258}, status : {DISCONNECTED, CONNECTED}]

WireMessages ==
  ChatMessages \cup FileRequestMessages \cup FileChunkMessages
    \cup FileCompleteMessages \cup ConnectionMessages

----------------------------------------------------------------------------
(* String literals of file_transfer.cpp, as bytes *)

\* "Transfer cancelled by sender"
Str_cancelled_by_sender == <<84, 114, 97, 110, 115, 102, 101, 114, 32, 99, 97, 110, 99, 101, 108, 108, 101, 100, 32, 98, 121, 32, 115, 101, 110, 100, 101, 114>>
\* "Transfer cancelled by receiver"
Str_cancelled_by_receiver == <<84, 114, 97, 110, 115, 102, 101, 114, 32, 99, 97, 110, 99, 101, 108, 108, 101, 100, 32, 98, 121, 32, 114, 101, 99, 101, 105, 118, 101, 114>>
\* "Transfer rejected by receiver"
Str_rejected == <<84, 114, 97, 110, 115, 102, 101, 114, 32, 114, 101, 106, 101, 99, 116, 101, 100, 32, 98, 121, 32, 114, 101, 99, 101, 105, 118, 101, 114>>
\* "Failed to create output file"
Str_create_failed == <<70, 97, 105, 108, 101, 100, 32, 116, 111, 32, 99, 114, 101, 97, 116, 101, 32, 111, 117, 116, 112, 117, 116, 32, 102, 105, 108, 101>>
\* "Failed to write to output file"
Str_write_failed == <<70, 97, 105, 108, 101, 100, 32, 116, 111, 32, 119, 114, 105, 116, 101, 32, 116, 111, 32, 111, 117, 116, 112, 117, 116, 32, 102, 105, 108, 101>>
\* "Failed to open file for reading"
Str_open_failed == <<70, 97, 105, 108, 101, 100, 32, 116, 111, 32, 111, 112, 101, 110, 32, 102, 105, 108, 101, 32, 102, 111, 114, 32, 114, 101, 97, 100, 105, 110, 103>>
\* "Unexpected end of file"
Str_unexpected_eof == <<85, 110, 101, 120, 112, 101, 99, 116, 101, 100, 32, 101, 110, 100, 32, 111, 102, 32, 102, 105, 108, 101>>
\* "Failed to send file chunk"
Str_send_chunk_failed == <<70, 97, 105, 108, 101, 100, 32, 116, 111, 32, 115, 101, 110, 100, 32, 102, 105, 108, 101, 32, 99, 104, 117, 110, 107>>
\* "downloads/": std::filesystem::current_path() / "downloads", relative to
\* the working directory
Str_downloads == <<100, 111, 119, 110, 108, 111, 97, 100, 115, 47>>
\* what a read through a dangling std::string reference may yield
Str_garbage == <<63>>

\* the words the callers look for in a reason
Str_reject == <<114, 101, 106, 101, 99, 116>>
Str_cancelled == <<99, 97, 110, 99, 101, 108, 108, 101, 100>>

\* std::string::find(sub) != npos
Contains(s, sub) ==
  \E i \in 0..(Len(s) - Len(sub)) : SubSeq(s, i + 1, i + Len(sub)) = sub

\* std::filesystem::path(file_path).filename(): what follows the last '/'
RECURSIVE Filename(_)
Filename(path) ==
  IF \A i \in 1..Len(path) : path[i] # 47 THEN path ELSE Filename(Tail(path))

\* output_dir / filename
OutputPath(filename) == Str_downloads \o filename

----------------------------------------------------------------------------
(* types.h: enum class FileTransferStatus *)

PENDING == 0
IN_PROGRESS == 1
COMPLETED == 2
FAILED == 3
REJECTED == 4

----------------------------------------------------------------------------
(* The two nodes and the files on their disks *)

Nodes == {"A", "B"}
Other(n) == IF n = "A" THEN "B" ELSE "A"

\* _chunk_size, DEFAULT_CHUNK_SIZE = 16 KiB in the source, scaled down so
\* that a file of a few bytes spans several chunks
ChunkSize == 2

\* paths: "f" is a regular file in the working directory, "d/e" an empty
\* regular file in a subdirectory, "x" does not exist
Str_x == <<120>>
Str_e == <<101>>
Str_d_e == <<100, 47, 101>>
SourceF == <<11, 12, 13, 14>>
Paths == {Str_f, Str_d_e, Str_x}
InitialFiles == [p \in {Str_f, Str_d_e} |-> IF p = Str_f THEN SourceF ELSE <<>>]

\* std::map / std::unordered_map as functions with a growing domain
MapPut(f, k, v) == [x \in DOMAIN f \cup {k} |-> IF x = k THEN v ELSE f[x]]
MapDel(f, k) == [x \in DOMAIN f \ {k} |-> f[x]]
\* std::map::emplace: an existing element is left as it is
MapEmplace(f, k, v) == IF k \in DOMAIN f THEN f ELSE MapPut(f, k, v)

Min(a, b) == IF a < b THEN a ELSE b
Max(a, b) == IF a > b THEN a ELSE b

\* seekp(off) followed by write(data) on an ofstream: bytes between the old
\* end and off read as zero; an empty write changes nothing
WriteAt(content, off, data) ==
  IF Len(data) = 0 THEN content
  ELSE [i \in 1..Max(Len(content), off + Len(data)) |->
          IF i > off /\ i <= off + Len(data) THEN data[i - off]
          ELSE IF i <= Len(content) THEN content[i] ELSE 0]

----------------------------------------------------------------------------
(* A handler runs on a copy of its node's state, s:                         *)
(*   sess, link       the session table and the TCP connection              *)
(*   budget           writes that still succeed before the connection       *)
(*                    breaks (-1: it does not break during the handler)     *)
(*   sent             bytes written to the socket by the handler            *)
(*   outgoing, incoming, fs, cs, dead, log    the manager and the disk      *)
(*   ret              the handler's return value                            *)

NodeState(n) ==
  [sess |-> peer_sessions[n], link |-> tcp, budget |-> -1, sent |-> <<>>,
   outgoing |-> outgoing[n], incoming |-> incoming[n], fs |-> fs[n],
   cs |-> chunk_size[n], dead |-> mutex_dead[n], log |-> log[n],
   ret |-> "void"]

Emit(s, e) == [s EXCEPT !.log = Append(@, e)]

\* PeerSession::SendMessage writes the 4-byte size, then the message
Frame(m) == ToBE(Len(Serialize(m)), 4) \o Serialize(m)

\* AsioNetworkManager::SendMessage returns true: the session is in the
\* table and connected, and asio::write does not throw
SendOk(s, peer_id) ==
  /\ peer_id \in DOMAIN s.sess
  /\ s.sess[peer_id].is_connected
  /\ s.link = "up"
  /\ s.budget # 0

\* a send that skips the lookup: it writes the frame whenever the
\* connection is up, whether or not the table holds a connected session
SendMessageUnchecked(s, peer_id, m) ==
  LET ok == s.link = "up" /\ s.budget # 0
      s1 == Emit(s, [ev |-> "send", to |-> peer_id, msg |-> m, ok |-> ok])
  IN  IF ok THEN [s1 EXCEPT !.sent = @ \o Frame(m)] ELSE s1

\* AsioNetworkManager::SendMessage / PeerSession::SendMessage: the state
\* after the call. A write that throws closes the session (Close()).
SendMessage(s, peer_id, m) ==
  LET found == peer_id \in DOMAIN s.sess /\ s.sess[peer_id].is_connected
      ok    == SendOk(s, peer_id)
      s1    == Emit(s, [ev |-> "send", to |-> peer_id, msg |-> m, ok |-> ok])
  IN  IF ok
        THEN [s1 EXCEPT !.sent = @ \o Frame(m),
                        !.budget = IF @ > 0 THEN @ - 1 ELSE @]
      ELSE IF found
        THEN [s1 EXCEPT !.sess[peer_id].is_connected = FALSE,
                        !.link = "down"]
      ELSE s1

\* the messages the manager builds; stamp is the MessageId and timestamp
\* the Message constructor draws
FileTransferRequestMessage(sender, filename, file_size, stamp) ==
  [type |-> FILE_TRANSFER_REQUEST, sender |-> sender, id |-> stamp.id,
   timestamp |-> stamp.ts, file_size |-> file_size, filename |-> filename]

FileChunkMessage(sender, file_id, chunk_index, data, stamp) ==
  [type |-> FILE_CHUNK, sender |-> sender, id |-> stamp.id,
   timestamp |-> stamp.ts, file_id |-> file_id, chunk_index |-> chunk_index,
   data |-> data]

FileTransferCompleteMessage(sender, file_id, success, error_message, stamp) ==
  [type |-> FILE_TRANSFER_COMPLETE, sender |-> sender, id |-> stamp.id,
   timestamp |-> stamp.ts, file_id |-> file_id, success |-> success,
   error_message |-> error_message]

ConnectionMessage(sender, status, stamp) ==
  [type |-> CONNECTION_NOTIFICATION, sender |-> sender, id |-> stamp.id,
   timestamp |-> stamp.ts, status |-> status]

ChatMessage(sender, content, stamp) ==
  [type |-> CHAT_MESSAGE, sender |-> sender, id |-> stamp.id,
   timestamp |-> stamp.ts, content |-> content]

----------------------------------------------------------------------------
(* ChatManager *)

Str_hi == <<104, 105>>
Str_Unknown == <<85, 110, 107, 110, 111, 119, 110>>
Str_User == <<85, 115, 101, 114>>

\* the id the ChatManager constructor draws for its node
LocalUserId(n) == IF n = "A" THEN PeerIdOf(1) ELSE PeerIdOf(2)

ChatInfo(sender_id, sender_name, content, timestamp) ==
  [sender_id |-> sender_id, sender_name |-> sender_name,
   content |-> content, timestamp |-> timestamp]

\* _chat_history[k].push_back(info)
PushBack(h, k, info) ==
  MapPut(h, k, Append(IF k \in DOMAIN h THEN h[k] ELSE <<>>, info))

\* the entry ChatManager::HandleMessage stores for a chat message
ReceivedInfo(m) == ChatInfo(m.sender, Str_Unknown, m.content, m.timestamp)

\* ChatManager::HandleMessage: the history after message m
ChatHandleMessage(h, m) ==
  IF m.type # CHAT_MESSAGE THEN h
  ELSE PushBack(h, m.sender, ReceivedInfo(m))

\* ChatManager::HandleMessage: the calls it makes while it handles m (the
\* chat callback main registered)
ChatHandleCalls(m) ==
  IF m.type # CHAT_MESSAGE THEN <<>>
  ELSE <<[ev |-> "chat", info |-> ReceivedInfo(m)]>>

----------------------------------------------------------------------------
\* events of the log
ProgressEvent(peer, path, bytes, size) ==
  [ev |-> "progress", peer |-> peer, path |-> path, num |-> bytes, den |-> size]
CompletedEvent(peer, path, ok, error) ==
  [ev |-> "completed", peer |-> peer, path |-> path, ok |-> ok, error |-> error]
StatusEvent(dir, key, status, bytes, size) ==
  [ev |-> "status", dir |-> dir, key |-> key, status |-> status,
   bytes |-> bytes, size |-> size]

----------------------------------------------------------------------------
(* BasicFileTransferManager *)

\* a TransferInfo that records no file id
NewOutgoingNoFileId(peer_id, file_path, file_size) ==
  [file_path |-> file_path, file_id |-> <<>>, file_size |-> file_size,
   peer_id |-> peer_id, status |-> PENDING, bytes_transferred |-> 0,
   input_open |-> FALSE, output_open |-> FALSE, next_chunk_index |-> 0,
   received_chunks |-> {}]

\* the TransferInfo SendFile stores. next_chunk_index is left unassigned
\* there and is not read before StartSendingFile assigns it.
NewOutgoing(peer_id, file_path, file_size) ==
  [file_path |-> file_path, file_id |-> file_path, file_size |-> file_size,
   peer_id |-> peer_id, status |-> PENDING, bytes_transferred |-> 0,
   input_open |-> FALSE, output_open |-> FALSE, next_chunk_index |-> 0,
   received_chunks |-> {}]

\* the TransferInfo HandleFileTransferRequest stores
NewIncoming(sender, filename, file_size) ==
  [file_path |-> OutputPath(filename), file_id |-> filename,
   file_size |-> file_size, peer_id |-> sender, status |-> IN_PROGRESS,
   bytes_transferred |-> 0, input_open |-> FALSE, output_open |-> TRUE,
   next_chunk_index |-> 0, received_chunks |-> {}]

\* a SendFile that stores the entry before it sends the request and
\* leaves it there when the send fails
SendFileEntryFirst(s, peer_id, file_path, stamp) ==
  IF file_path \notin DOMAIN s.fs THEN [s EXCEPT !.ret = "false"]
  ELSE
    LET file_size == Len(s.fs[file_path])
        s0 == [s EXCEPT !.outgoing = MapEmplace(@, <<peer_id, file_path>>,
                          NewOutgoing(peer_id, file_path, file_size))]
        s1 == SendMessage(s0, peer_id,
                FileTransferRequestMessage(peer_id, Filename(file_path),
                                           file_size, stamp))
    IN  [s1 EXCEPT !.ret = IF SendOk(s, peer_id) THEN "true" ELSE "false"]

\* a CancelTransfer that erases the entry without telling the peer
CancelTransferSilently(s, peer_id, file_path, stamp) ==
  LET key == <<peer_id, file_path>> IN
  IF key \in DOMAIN s.outgoing THEN
    [Emit(s, StatusEvent("out", key, FAILED, s.outgoing[key].bytes_transferred,
                         s.outgoing[key].file_size))
       EXCEPT !.outgoing = MapDel(@, key)]
  ELSE IF key \in DOMAIN s.incoming THEN
    [Emit(s, StatusEvent("in", key, FAILED, s.incoming[key].bytes_transferred,
                         s.incoming[key].file_size))
       EXCEPT !.incoming = MapDel(@, key)]
  ELSE s

\* BasicFileTransferManager::SendFile
SendFile(s, peer_id, file_path, stamp) ==
  IF file_path \notin DOMAIN s.fs THEN [s EXCEPT !.ret = "false"]
  ELSE
    LET file_size == Len(s.fs[file_path])
        file_id   == file_path
        filename  == Filename(file_path)
        request   == FileTransferRequestMessage(peer_id, filename, file_size, stamp)
        sent      == SendOk(s, peer_id)
        s1        == SendMessage(s, peer_id, request)
    IN  IF ~sent THEN [s1 EXCEPT !.ret = "false"]
        ELSE [s1 EXCEPT
                !.outgoing = MapEmplace(@, <<peer_id, file_id>>,
                                        NewOutgoing(peer_id, file_path, file_size)),
                !.ret = "true"]

\* BasicFileTransferManager::CancelTransfer
CancelTransfer(s, peer_id, file_path, stamp) ==
  LET file_id == file_path
      key     == <<peer_id, file_id>>
  IN  IF key \in DOMAIN s.outgoing THEN
        LET t  == s.outgoing[key]
            s1 == Emit(s, StatusEvent("out", key, FAILED,
                                      t.bytes_transferred, t.file_size))
            s2 == SendMessage(s1, peer_id,
                    FileTransferCompleteMessage(peer_id, file_id, FALSE,
                                                Str_cancelled_by_sender, stamp))
        IN  [s2 EXCEPT !.outgoing = MapDel(@, key)]
      ELSE IF key \in DOMAIN s.incoming THEN
        LET t  == s.incoming[key]
            s1 == Emit(s, StatusEvent("in", key, FAILED,
                                      t.bytes_transferred, t.file_size))
            s2 == SendMessage(s1, peer_id,
                    FileTransferCompleteMessage(peer_id, file_id, FALSE,
                                                Str_cancelled_by_receiver, stamp))
        IN  [s2 EXCEPT !.incoming = MapDel(@, key)]
      ELSE s

\* BasicFileTransferManager::HandleFileTransferRequest.
\* accept: what the request callback returns; open_ok: whether the output
\* file can be created.
HandleFileTransferRequest(s, m, accept, open_ok, stamp) ==
  LET sender   == m.sender
      filename == m.filename
      s0 == Emit(s, [ev |-> "request", peer |-> sender, filename |-> filename,
                     size |-> m.file_size, accept |-> accept])
  IN  IF ~accept THEN
        SendMessage(s0, sender,
          FileTransferCompleteMessage(sender, filename, FALSE, Str_rejected, stamp))
      ELSE IF ~open_ok THEN
        SendMessage(s0, sender,
          FileTransferCompleteMessage(sender, filename, FALSE,
                                      Str_create_failed, stamp))
      ELSE
        [s0 EXCEPT
           !.fs = MapPut(@, OutputPath(filename), <<>>),
           !.incoming = MapPut(@, <<sender, filename>>,
                               NewIncoming(sender, filename, m.file_size))]

\* a HandleFileChunk that takes no chunk index for a duplicate
NeverDuplicate(transfer, chunk_index) == FALSE

\* the test for an already received chunk index in HandleFileChunk
IsDuplicate(transfer, chunk_index) ==
  chunk_index \in transfer.received_chunks

\* BasicFileTransferManager::HandleFileChunk.
\* write_ok: whether the stream is good after the write; dangling: what the
\* read of transfer.file_path after the erase yields ("intact", "garbage").
HandleFileChunk(s, m, write_ok, dangling, stamp) ==
  LET sender      == m.sender
      file_id     == m.file_id
      chunk_index == m.chunk_index
      data        == m.data
      key         == <<sender, file_id>>
  IN  IF key \notin DOMAIN s.incoming THEN s
      ELSE
        LET transfer == s.incoming[key] IN
        IF IsDuplicate(transfer, chunk_index) THEN s
        ELSE IF ~write_ok THEN
          LET s1 == SendMessage(s, sender,
                      FileTransferCompleteMessage(sender, file_id, FALSE,
                                                  Str_write_failed, stamp))
              s2 == Emit(s1, StatusEvent("in", key, FAILED,
                                         transfer.bytes_transferred,
                                         transfer.file_size))
              s3 == [s2 EXCEPT !.incoming = MapDel(@, key)]
          IN  Emit(s3, CompletedEvent(sender,
                         IF dangling = "intact" THEN transfer.file_path
                                                ELSE Str_garbage,
                         FALSE, Str_write_failed))
        ELSE
          LET t1 == [transfer EXCEPT
                       !.received_chunks = @ \cup {chunk_index},
                       !.bytes_transferred = @ + Len(data)]
              s1 == [s EXCEPT
                       !.fs[transfer.file_path] =
                          WriteAt(@, chunk_index * s.cs, data),
                       !.incoming[key] = t1]
              s2 == Emit(s1, ProgressEvent(sender, transfer.file_path,
                                           t1.bytes_transferred, t1.file_size))
          IN  IF t1.bytes_transferred >= t1.file_size THEN
                LET s3 == Emit(s2, StatusEvent("in", key, COMPLETED,
                                               t1.bytes_transferred, t1.file_size))
                    s4 == SendMessage(s3, sender,
                            FileTransferCompleteMessage(sender, file_id, TRUE,
                                                        <<>>, stamp))
                    s5 == Emit(s4, CompletedEvent(sender, transfer.file_path,
                                                  TRUE, <<>>))
                IN  [s5 EXCEPT !.incoming = MapDel(@, key)]
              ELSE s2

\* BasicFileTransferManager::HandleFileTransferComplete
HandleFileTransferComplete(s, m) ==
  LET sender  == m.sender
      file_id == m.file_id
      key     == <<sender, file_id>>
  IN  IF key \notin DOMAIN s.outgoing THEN s
      ELSE
        LET transfer == s.outgoing[key]
            s1 == IF m.success
                    THEN Emit(Emit(s, StatusEvent("out", key, COMPLETED,
                                                  transfer.bytes_transferred,
                                                  transfer.file_size)),
                              CompletedEvent(sender, transfer.file_path, TRUE, <<>>))
                    ELSE Emit(Emit(s, StatusEvent("out", key, FAILED,
                                                  transfer.bytes_transferred,
                                                  transfer.file_size)),
                              CompletedEvent(sender, transfer.file_path, FALSE,
                                             m.error_message))
        IN  [s1 EXCEPT !.outgoing = MapDel(@, key)]

\* the failure exits of StartSendingFile and SendNextChunk: notify the
\* peer, mark FAILED, erase, then call the completion callback with
\* transfer.file_path read through the erased element
FailOutgoing(s, key, reason, dangling, stamp) ==
  LET transfer == s.outgoing[key]
      s1 == SendMessage(s, key[1],
              FileTransferCompleteMessage(key[1], key[2], FALSE, reason, stamp))
      s2 == Emit(s1, StatusEvent("out", key, FAILED,
                                 transfer.bytes_transferred, transfer.file_size))
      s3 == [s2 EXCEPT !.outgoing = MapDel(@, key)]
  IN  Emit(s3, CompletedEvent(key[1],
                 IF dangling = "intact" THEN transfer.file_path ELSE Str_garbage,
                 FALSE, reason))

\* a sender that puts the whole file into chunk 0
SendWholeFileAsOneChunk(s, peer_id, file_id, dangling, stamp) ==
  LET key == <<peer_id, file_id>> IN
  IF key \notin DOMAIN s.outgoing THEN s
  ELSE
    LET transfer == s.outgoing[key]
        s1 == SendMessage(s, peer_id,
                FileChunkMessage(peer_id, file_id, 0,
                                 s.fs[transfer.file_path], stamp))
        s2 == Emit(s1, CompletedEvent(peer_id, transfer.file_path, TRUE, <<>>))
    IN  [s2 EXCEPT !.outgoing = MapDel(@, key)]

\* BasicFileTransferManager::SendNextChunk, entered with the mutex already
\* owned by the calling thread in a build where lock() then returns
RECURSIVE SendNextChunk(_, _, _, _, _)
SendNextChunk(s, peer_id, file_id, dangling, stamp) ==
  LET key == <<peer_id, file_id>> IN
  IF key \notin DOMAIN s.outgoing THEN s
  ELSE
    LET transfer == s.outgoing[key] IN
    IF transfer.status # IN_PROGRESS THEN s
    ELSE IF ~transfer.input_open THEN s
    ELSE
      LET pos        == transfer.next_chunk_index * s.cs
          content    == s.fs[transfer.file_path]
          chunk      == SubSeq(content, pos + 1, Min(pos + s.cs, Len(content)))
          bytes_read == Len(chunk)
      IN
      IF bytes_read = 0 THEN
        IF transfer.bytes_transferred >= transfer.file_size THEN
          LET s1 == Emit(s, StatusEvent("out", key, COMPLETED,
                                        transfer.bytes_transferred,
                                        transfer.file_size))
              s2 == Emit(s1, CompletedEvent(peer_id, transfer.file_path, TRUE, <<>>))
          IN  [s2 EXCEPT !.outgoing = MapDel(@, key)]
        ELSE FailOutgoing(s, key, Str_unexpected_eof, dangling, stamp)
      ELSE
        LET chunk_msg == FileChunkMessage(peer_id, file_id,
                                          transfer.next_chunk_index, chunk, stamp)
            sent == SendOk(s, peer_id)
            s1   == SendMessage(s, peer_id, chunk_msg)
        IN
        IF ~sent THEN FailOutgoing(s1, key, Str_send_chunk_failed, dangling, stamp)
        ELSE
          LET t1 == [transfer EXCEPT
                       !.bytes_transferred = @ + bytes_read,
                       !.next_chunk_index = @ + 1]
              s2 == Emit([s1 EXCEPT !.outgoing[key] = t1],
                         ProgressEvent(peer_id, transfer.file_path,
                                       t1.bytes_transferred, t1.file_size))
          IN
          IF t1.bytes_transferred >= t1.file_size THEN
            LET s3 == Emit(s2, StatusEvent("out", key, COMPLETED,
                                           t1.bytes_transferred, t1.file_size))
                s4 == Emit(s3, CompletedEvent(peer_id, transfer.file_path,
                                              TRUE, <<>>))
            IN  [s4 EXCEPT !.outgoing = MapDel(@, key)]
          ELSE SendNextChunk(s2, peer_id, file_id, dangling, stamp)

\* BasicFileTransferManager::StartSendingFile. It calls SendNextChunk
\* while holding _transfers_mutex, which SendNextChunk locks again: the
\* second lock() of a std::mutex by its owner is undefined; relock is what
\* the build makes of it, "deadlock" (the thread hangs, owning the mutex) or
\* "proceeds" (lock() returns).
StartSendingFile(s, peer_id, file_id, open_ok, relock, dangling, stamp) ==
  LET key == <<peer_id, file_id>> IN
  IF key \notin DOMAIN s.outgoing THEN s
  ELSE
    LET transfer == s.outgoing[key] IN
    IF ~transfer.input_open /\ ~open_ok
      THEN FailOutgoing(s, key, Str_open_failed, dangling, stamp)
    ELSE
      LET s1 == [s EXCEPT !.outgoing[key] =
                   [transfer EXCEPT !.input_open = TRUE,
                                    !.status = IN_PROGRESS,
                                    !.next_chunk_index = 0]]
      IN  IF relock = "deadlock" THEN [s1 EXCEPT !.dead = TRUE]
          ELSE SendNextChunk(s1, peer_id, file_id, dangling, stamp)

\* BasicFileTransferManager::HandleMessage: env holds what the environment
\* decides during the handler
HandleMessage(s, m, env) ==
  CASE m.type = FILE_TRANSFER_REQUEST ->
         HandleFileTransferRequest(s, m, env.accept, env.io_ok, env.stamp)
    [] m.type = FILE_CHUNK ->
         HandleFileChunk(s, m, env.io_ok, env.dangling, env.stamp)
    [] m.type = FILE_TRANSFER_COMPLETE ->
         HandleFileTransferComplete(s, m)
    [] OTHER -> s

----------------------------------------------------------------------------
(* Steps of the program *)

\* bound on the API calls and injected messages of one behaviour when the
\* handlers are driven directly
MaxOps == 4

\* bound on the API calls of one behaviour of the wired program
MaxCalls == 2

\* the MessageId and timestamp a Message constructor draws
Stamps == [id : {MessageIdOf(1)}, ts : {258}]

\* what the environment decides while a handler runs
Envs == [accept : BOOLEAN, io_ok : BOOLEAN, dangling : {"intact", "garbage"},
         stamp : Stamps]

\* the source file a request for filename stands for, and the bytes the
\* sender's read loop puts in chunk i of it
SourceOf(filename) == IF filename = Str_f THEN SourceF ELSE <<>>
HonestChunk(filename, i, cs) ==
  SubSeq(SourceOf(filename), i * cs + 1, Min((i + 1) * cs, Len(SourceOf(filename))))
\* chunk message m is one the sender's read loop produces from the source
Honest(m, cs) ==
  /\ m.chunk_index * cs < Len(SourceOf(m.file_id))
  /\ m.data = HonestChunk(m.file_id, m.chunk_index, cs)

\* the handler's result r becomes node n's state; w is the wire before the
\* handler's writes; deliver: whether the remote end is part of the
\* specification (the bytes written are in the log either way)
Apply(n, r, w, deliver, l, cost) ==
  /\ peer_sessions' = [peer_sessions EXCEPT ![n] = r.sess]
  /\ tcp' = r.link
  /\ wire' = IF deliver THEN [w EXCEPT ![Other(n)] = @ \o r.sent] ELSE w
  /\ outgoing' = [outgoing EXCEPT ![n] = r.outgoing]
  /\ incoming' = [incoming EXCEPT ![n] = r.incoming]
  /\ fs' = [fs EXCEPT ![n] = r.fs]
  /\ mutex_dead' = [mutex_dead EXCEPT ![n] = r.dead]
  /\ log' = [log EXCEPT ![n] = r.log]
  /\ last' = l
  /\ ops' = ops + cost
  /\ UNCHANGED <<chunk_size, msgVars, mgrVars>>

\* the ghost sets after message m was handled with result r: a request
\* that stores an entry starts the key afresh; a chunk that changes the
\* entry was written
TaintAfter(n, m, r) ==
  IF m.type = FILE_TRANSFER_REQUEST
    THEN IF r.incoming # incoming[n] \/ r.fs # fs[n]
           THEN tainted[n] \ {<<m.sender, m.filename>>}
           ELSE tainted[n]
  ELSE IF m.type = FILE_CHUNK
    THEN IF r.incoming # incoming[n] /\ ~Honest(m, chunk_size[n])
           THEN tainted[n] \cup {<<m.sender, m.file_id>>}
           ELSE tainted[n]
  ELSE tainted[n]

DroppedAfter(n, m, r) ==
  IF m.type = FILE_TRANSFER_REQUEST
    THEN IF r.incoming # incoming[n] \/ r.fs # fs[n]
           THEN dropped[n] \ {<<m.sender, m.filename>>}
           ELSE dropped[n]
  ELSE IF m.type = FILE_CHUNK
    THEN IF /\ <<m.sender, m.file_id>> \in DOMAIN incoming[n]
            /\ m.chunk_index \in incoming[n][<<m.sender, m.file_id>>].received_chunks
           THEN dropped[n] \cup {<<m.sender, m.file_id>>}
           ELSE dropped[n]
  ELSE dropped[n]

\* the session's message callback runs BasicFileTransferManager::HandleMessage
\* (the file-transfer manager registers last in main)
Dispatch(n, m, env, w, deliver, cost) ==
  LET r == HandleMessage(NodeState(n), m, env) IN
  /\ ~mutex_dead[n]
  /\ Apply(n, r, w, deliver,
           [op |-> "HandleMessage", node |-> n, msg |-> m, io |-> env.io_ok,
            cb |-> "file", ret |-> r.ret], cost)
  /\ tainted' = [tainted EXCEPT ![n] = TaintAfter(n, m, r)]
  /\ dropped' = [dropped EXCEPT ![n] = DroppedAfter(n, m, r)]
  /\ UNCHANGED <<pending, appVars>>

\* AsioNetworkManager::ConnectToPeer on node A with node B's address: the
\* connection is established, both completion handlers are queued
ConnectToPeer ==
  /\ tcp = "none"
  /\ tcp' = "up"
  /\ pending' = Nodes
  /\ last' = [op |-> "ConnectToPeer", node |-> "A", ret |-> "true"]
  /\ UNCHANGED <<peer_sessions, wire, outgoing, incoming, fs, chunk_size,
                 mutex_dead, log, ghostVars, ops, msgVars, appVars, mgrVars>>

\* the async_connect handler (on A) and the async_accept handler (on B)
OnConnected(n) ==
  /\ n \in pending
  /\ is_running[n] # "stopped"
  /\ \E peer_id \in PeerIds, stamp \in Stamps :
       LET s0 == [NodeState(n) EXCEPT
                    !.sess = MapPut(@, peer_id,
                                   [is_connected |-> TRUE,
                                    cb |-> message_callback[n]])]
           s1 == SendMessage(s0, peer_id,
                             ConnectionMessage(peer_id, CONNECTED, stamp))
           s2 == Emit(s1, [ev |-> "connection", peer |-> peer_id,
                           status |-> CONNECTED])
       IN  Apply(n, s2, wire, TRUE,
                 [op |-> "OnConnected", node |-> n, peer |-> peer_id,
                  ret |-> "void"], 0)
  /\ pending' = pending \ {n}
  /\ UNCHANGED <<ghostVars, appVars>>

\* PeerSession::ReadMessage: one whole frame has arrived on a connected
\* session p of n. A frame the factory rejects is dropped and reading
\* continues; a parsed message goes to the callback the session copied when
\* it was constructed (the file-transfer manager's handler or the chat
\* manager's); an exception (calling an empty std::function) closes the
\* session.
ReadMessage(n) ==
  /\ is_running[n] # "stopped"
  /\ Len(wire[n]) >= 4
  /\ \E p \in DOMAIN peer_sessions[n] :
       /\ peer_sessions[n][p].is_connected
       /\ LET size == FromBE(SubSeq(wire[n], 1, 4))
              body == SubSeq(wire[n], 5, 4 + size)
              rest == SubSeq(wire[n], 5 + size, Len(wire[n]))
              m    == CreateFromBuffer(body)
              w    == [wire EXCEPT ![n] = rest]
              cb   == peer_sessions[n][p].cb
          IN  /\ Len(wire[n]) >= 4 + size
              /\ IF m = NoMessage
                   THEN /\ wire' = w
                        /\ last' = [op |-> "ReadMessage", node |-> n,
                                    ret |-> "nullptr"]
                        /\ UNCHANGED <<tcp, pending, peer_sessions, outgoing,
                                       incoming, fs, chunk_size, mutex_dead,
                                       log, ghostVars, ops, msgVars, appVars, mgrVars>>
                   ELSE IF cb = "file"
                   THEN \E env \in Envs : Dispatch(n, m, env, w, TRUE, 0)
                   ELSE IF cb = "none"
                   THEN /\ wire' = w
                        /\ peer_sessions' =
                             [peer_sessions EXCEPT ![n][p].is_connected = FALSE]
                        /\ tcp' = "down"
                        /\ last' = [op |-> "ReadMessage", node |-> n,
                                    ret |-> "bad_function_call"]
                        /\ UNCHANGED <<pending, outgoing, incoming, fs,
                                       chunk_size, mutex_dead, log, ghostVars,
                                       ops, msgVars, appVars, mgrVars>>
                   ELSE /\ wire' = w
                        /\ chat_history' =
                             [chat_history EXCEPT ![n] = ChatHandleMessage(@, m)]
                        /\ log' = [log EXCEPT ![n] = @ \o ChatHandleCalls(m)]
                        /\ last' = [op |-> "Deliver", node |-> n, msg |-> m,
                                    cb |-> cb, ret |-> "void"]
                        /\ UNCHANGED <<tcp, pending, peer_sessions, outgoing,
                                       incoming, fs, chunk_size, mutex_dead,
                                       ghostVars, ops, msgVars, sessions,
                                       discVars, mgrVars>>

\* the read loop of a connected session of n sees the connection gone:
\* PeerSession::Close()
ReadError(n) ==
  /\ tcp = "down"
  /\ is_running[n] # "stopped"
  /\ \E p \in DOMAIN peer_sessions[n] :
       /\ peer_sessions[n][p].is_connected
       /\ peer_sessions' = [peer_sessions EXCEPT ![n][p].is_connected = FALSE]
  /\ last' = [op |-> "ReadError", node |-> n, ret |-> "void"]
  /\ UNCHANGED <<tcp, pending, wire, outgoing, incoming, fs, chunk_size,
                 mutex_dead, log, ghostVars, ops, msgVars, appVars, mgrVars>>

\* the connection breaks (network failure)
LinkFails ==
  /\ tcp = "up"
  /\ tcp' = "down"
  /\ last' = [op |-> "LinkFails", node |-> "-", ret |-> "void"]
  /\ UNCHANGED <<pending, peer_sessions, wire, outgoing, incoming, fs,
                 chunk_size, mutex_dead, log, ghostVars, ops, msgVars, appVars, mgrVars>>

\* a disconnect that closes the session and reports it but leaves it in the
\* table
DisconnectKeepsEntry(n, peer_id) ==
  /\ peer_id \in DOMAIN peer_sessions[n]
  /\ peer_sessions' = [peer_sessions EXCEPT ![n][peer_id].is_connected = FALSE]
  /\ tcp' = "down"
  /\ log' = [log EXCEPT ![n] = Append(@, [ev |-> "connection", peer |-> peer_id,
                                         status |-> DISCONNECTED])]
  /\ last' = [op |-> "DisconnectFromPeer", node |-> n, peer |-> peer_id,
              ret |-> "void"]
  /\ UNCHANGED <<pending, wire, outgoing, incoming, fs, chunk_size,
                 mutex_dead, ghostVars, ops, msgVars, appVars, mgrVars>>

\* AsioNetworkManager::DisconnectFromPeer: a session found under peer_id is
\* closed, erased and reported; without one nothing happens
DisconnectFromPeer(n, peer_id) ==
  /\ IF peer_id \in DOMAIN peer_sessions[n]
       THEN /\ peer_sessions' = [peer_sessions EXCEPT ![n] = MapDel(@, peer_id)]
            /\ tcp' = IF peer_sessions[n][peer_id].is_connected
                        THEN "down" ELSE tcp
            /\ log' = [log EXCEPT ![n] =
                         Append(@, [ev |-> "connection", peer |-> peer_id,
                                    status |-> DISCONNECTED])]
       ELSE UNCHANGED <<peer_sessions, tcp, log>>
  /\ last' = [op |-> "DisconnectFromPeer", node |-> n, peer |-> peer_id,
              ret |-> "void"]
  /\ UNCHANGED <<pending, wire, outgoing, incoming, fs, chunk_size,
                 mutex_dead, ghostVars, ops, msgVars, appVars, mgrVars>>

\* AsioNetworkManager::GetConnectedPeers
GetConnectedPeers(n) ==
  {p \in DOMAIN peer_sessions[n] : peer_sessions[n][p].is_connected}

\* a call of FileTransferManager::SendFile
DoSendFile(n, peer_id, file_path, deliver, bound) ==
  /\ ops < bound
  /\ ~mutex_dead[n]
  /\ \E stamp \in Stamps :
       LET r == SendFile(NodeState(n), peer_id, file_path, stamp) IN
       Apply(n, r, wire, deliver,
             [op |-> "SendFile", node |-> n, peer |-> peer_id,
              path |-> file_path, ret |-> r.ret], 1)
  /\ UNCHANGED <<ghostVars, pending, appVars>>

\* a call of FileTransferManager::CancelTransfer
DoCancelTransfer(n, peer_id, file_path, deliver, bound) ==
  /\ ops < bound
  /\ ~mutex_dead[n]
  /\ \E stamp \in Stamps :
       LET r == CancelTransfer(NodeState(n), peer_id, file_path, stamp) IN
       Apply(n, r, wire, deliver,
             [op |-> "CancelTransfer", node |-> n, peer |-> peer_id,
              path |-> file_path, ret |-> r.ret], 1)
  /\ UNCHANGED <<ghostVars, pending, appVars>>

IdleMsg ==
  /\ msg_in = NoMessage
  /\ msg_buf = <<>>
  /\ msg_out = NoMessage
  /\ msg_pc = "idle"

\* the callbacks main and the managers' constructors register with
\* SetMessageCallback; "none" is the empty std::function of a new manager
Callbacks == {"chat", "file"}

\* the threads that call PeerSession::SendMessage: the UI thread (commands)
\* and the io thread (completion handlers)
Threads == {"ui", "io"}

IdleThreads == [t \in Threads |-> [pc |-> "idle", msg |-> NoMessage]]

\* no chat exchanged, no session object, discovery started and nothing
\* heard yet
IdleApp ==
  /\ chat_history = [n \in Nodes |-> <<>>]
  /\ sessions = <<>>
  /\ discovered_peers = <<>>
  /\ now = 0
  /\ slept = 0
  /\ running = TRUE

\* a started network manager whose message callback is the file-transfer
\* manager's, no SendMessage call in progress
IdleMgr ==
  /\ message_callback = [n \in Nodes |-> "file"]
  /\ is_running = [n \in Nodes |-> "running"]
  /\ threads = IdleThreads

\* the managers as main leaves them, before any connection
Init ==
  /\ IdleMsg
  /\ tcp = "none"
  /\ pending = {}
  /\ peer_sessions = [n \in Nodes |-> <<>>]
  /\ wire = [n \in Nodes |-> <<>>]
  /\ outgoing = [n \in Nodes |-> <<>>]
  /\ incoming = [n \in Nodes |-> <<>>]
  /\ fs = [n \in Nodes |-> InitialFiles]
  /\ chunk_size = [n \in Nodes |-> ChunkSize]
  /\ mutex_dead = [n \in Nodes |-> FALSE]
  /\ log = [n \in Nodes |-> <<>>]
  /\ last = [op |-> "init", node |-> "-", ret |-> "void"]
  /\ tainted = [n \in Nodes |-> {}]
  /\ dropped = [n \in Nodes |-> {}]
  /\ ops = 0
  /\ IdleMgr
  /\ IdleApp

Next ==
  \/ ConnectToPeer
  \/ \E n \in Nodes : OnConnected(n)
  \/ \E n \in Nodes : ReadMessage(n)
  \/ \E n \in Nodes : ReadError(n)
  \/ LinkFails
  \/ \E n \in Nodes : \E p \in DOMAIN peer_sessions[n] : DisconnectFromPeer(n, p)
  \/ \E n \in Nodes, p \in PeerIds, f \in Paths : DoSendFile(n, p, f, TRUE, MaxCalls)
  \/ \E n \in Nodes, p \in PeerIds, f \in Paths : DoCancelTransfer(n, p, f, TRUE, MaxCalls)

Spec == Init /\ [][Next]_vars

----------------------------------------------------------------------------
(* The manager of node A driven directly: its handlers are called with    *)
(* message objects (not bytes), and StartSendingFile, which nothing in    *)
(* the program calls, is an entry point.                                   *)

\* the last chunk index of the source file
MaxChunkIndex == (Len(SourceF) - 1) \div ChunkSize
BogusData == <<99, 98, 97>>

UnitRequests ==
  {FileTransferRequestMessage(p, f, Len(SourceOf(f)), st) :
     p \in PeerIds, f \in {Str_f}, st \in Stamps}

UnitChunks ==
  UNION {{FileChunkMessage(p, Str_f, i, d, st) :
            p \in PeerIds, d \in {HonestChunk(Str_f, i, ChunkSize), BogusData},
            st \in Stamps} : i \in 0..MaxChunkIndex}

UnitCompletes ==
  {FileTransferCompleteMessage(p, f, ok, IF ok THEN <<>> ELSE Str_rejected, st) :
     p \in PeerIds, f \in {Str_f, Str_d_e}, ok \in BOOLEAN, st \in Stamps}

\* node A after its connection handler registered the peer as PeerIdOf(1)
InitUnit ==
  /\ IdleMsg
  /\ tcp = "up"
  /\ pending = {}
  /\ peer_sessions = [n \in Nodes |->
        IF n = "A" THEN MapPut(<<>>, PeerIdOf(1),
                             [is_connected |-> TRUE, cb |-> "file"])
                   ELSE <<>>]
  /\ wire = [n \in Nodes |-> <<>>]
  /\ outgoing = [n \in Nodes |-> <<>>]
  /\ incoming = [n \in Nodes |-> <<>>]
  /\ fs = [n \in Nodes |-> InitialFiles]
  /\ chunk_size = [n \in Nodes |-> ChunkSize]
  /\ mutex_dead = [n \in Nodes |-> FALSE]
  /\ log = [n \in Nodes |-> <<>>]
  /\ last = [op |-> "init", node |-> "-", ret |-> "void"]
  /\ tainted = [n \in Nodes |-> {}]
  /\ dropped = [n \in Nodes |-> {}]
  /\ ops = 0
  /\ IdleMgr
  /\ IdleApp

\* a FileTransferRequestMessage is handed to the message callback
OnFileTransferRequest ==
  /\ ops < MaxOps
  /\ \E m \in UnitRequests, env \in Envs :
       /\ env.dangling = "intact"
       /\ env.io_ok
       /\ Dispatch("A", m, env, wire, FALSE, 1)

\* a FileChunkMessage of a transfer in the incoming table is handed to the
\* message callback
OnFileChunk ==
  /\ ops < MaxOps
  /\ \E m \in UnitChunks, env \in Envs :
       /\ <<m.sender, m.file_id>> \in DOMAIN incoming["A"]
       /\ env.accept
       /\ env.io_ok => env.dangling = "intact"
       /\ Dispatch("A", m, env, wire, FALSE, 1)

\* a FileTransferCompleteMessage of a transfer in the outgoing table is
\* handed to the message callback
OnFileTransferComplete ==
  /\ ops < MaxOps
  /\ \E m \in UnitCompletes, env \in Envs :
       /\ <<m.sender, m.file_id>> \in DOMAIN outgoing["A"]
       /\ env.accept /\ env.io_ok /\ env.dangling = "intact"
       /\ Dispatch("A", m, env, wire, FALSE, 1)

\* a call of StartSendingFile; budget: the writes that succeed before the
\* connection breaks
CallStartSendingFile(bound) ==
  /\ ops < bound
  /\ ~mutex_dead["A"]
  /\ \E key \in DOMAIN outgoing["A"], open_ok \in BOOLEAN,
        relock \in {"deadlock", "proceeds"}, budget \in {-1, 1},
        dangling \in {"intact", "garbage"}, stamp \in Stamps :
       LET r == StartSendingFile([NodeState("A") EXCEPT !.budget = budget],
                                 key[1], key[2], open_ok, relock, dangling, stamp)
       IN  Apply("A", r, wire, FALSE,
                 [op |-> "StartSendingFile", node |-> "A", peer |-> key[1],
                  path |-> key[2], relock |-> relock, ret |-> "void"], 1)
  /\ UNCHANGED <<ghostVars, pending, appVars>>

NextUnit ==
  \/ OnFileTransferRequest
  \/ OnFileChunk
  \/ OnFileTransferComplete
  \/ CallStartSendingFile(MaxOps)
  \/ \E p \in PeerIds, f \in Paths : DoSendFile("A", p, f, FALSE, MaxOps)
  \/ \E p \in PeerIds : DoCancelTransfer("A", p, Str_f, FALSE, MaxOps)

SpecUnit == InitUnit /\ [][NextUnit]_vars

----------------------------------------------------------------------------
(* The file-transfer manager of node A with progress and completion       *)
(* callbacks that ask the manager for its transfers                       *)

\* BasicFileTransferManager::GetOngoingTransfers: under the lock, one
\* tuple per outgoing and per incoming transfer
GetOngoingTransfers(s) ==
  {<<s.outgoing[k].peer_id, s.outgoing[k].file_path, s.outgoing[k].status,
     s.outgoing[k].bytes_transferred, s.outgoing[k].file_size>> :
       k \in DOMAIN s.outgoing}
  \cup
  {<<s.incoming[k].peer_id, s.incoming[k].file_path, s.incoming[k].status,
     s.incoming[k].bytes_transferred, s.incoming[k].file_size>> :
       k \in DOMAIN s.incoming}

\* the manager's state when the handler of m invokes the first progress or
\* completion callback: HandleFileChunk and HandleFileTransferComplete
\* hold their lock_guard on _transfers_mutex until they return, so the
\* callback runs with the mutex held. s if the handler invokes none: an
\* unknown key, a duplicate chunk, a request (its callback runs before any
\* lock is taken).
AtLockedCallback(s, m, env) ==
  IF m.type = FILE_CHUNK THEN
    LET key == <<m.sender, m.file_id>> IN
    IF key \notin DOMAIN s.incoming THEN s
    ELSE IF IsDuplicate(s.incoming[key], m.chunk_index) THEN s
    ELSE IF ~env.io_ok THEN HandleMessage(s, m, env)
    ELSE
      LET transfer == s.incoming[key]
          t1 == [transfer EXCEPT
                   !.received_chunks = @ \cup {m.chunk_index},
                   !.bytes_transferred = @ + Len(m.data)]
          s1 == [s EXCEPT
                   !.fs[transfer.file_path] =
                      WriteAt(@, m.chunk_index * s.cs, m.data),
                   !.incoming[key] = t1]
      IN  Emit(s1, ProgressEvent(m.sender, transfer.file_path,
                                 t1.bytes_transferred, t1.file_size))
  ELSE IF m.type = FILE_TRANSFER_COMPLETE THEN
    LET key == <<m.sender, m.file_id>> IN
    IF key \notin DOMAIN s.outgoing THEN s
    ELSE
      LET r == HandleMessage(s, m, env)
      IN  [r EXCEPT !.outgoing =
             MapPut(@, key,
                    [s.outgoing[key] EXCEPT
                       !.status = IF m.success THEN COMPLETED ELSE FAILED])]
  ELSE s

\* a message is handed to the message callback; the application's
\* progress and completion callbacks call GetOngoingTransfers. relock: what
\* lock() on the std::mutex the thread already owns does.
OnMessageWithCallbacks ==
  /\ ops < MaxOps
  /\ ~mutex_dead["A"]
  /\ \E m \in UnitRequests \cup UnitChunks \cup UnitCompletes, env \in Envs,
        relock \in {"deadlock", "proceeds"} :
       LET s == NodeState("A")
           c == AtLockedCallback(s, m, env)
           held == c.log # s.log
           r == IF held /\ relock = "deadlock"
                  THEN [c EXCEPT !.dead = TRUE]
                  ELSE HandleMessage(s, m, env)
       IN  /\ env.accept
           /\ env.dangling = "intact"
           /\ Apply("A", r, wire, FALSE,
                    [op |-> "HandleMessage", node |-> "A", msg |-> m,
                     io |-> env.io_ok, cb |-> "file", held |-> held,
                     relock |-> IF held THEN relock ELSE "none",
                     transfers |-> IF held THEN GetOngoingTransfers(c) ELSE {},
                     ret |-> r.ret], 1)
           /\ tainted' = [tainted EXCEPT !["A"] = TaintAfter("A", m, r)]
           /\ dropped' = [dropped EXCEPT !["A"] = DroppedAfter("A", m, r)]
  /\ UNCHANGED <<pending, appVars>>

NextReenter ==
  \/ OnMessageWithCallbacks
  \/ \E p \in PeerIds, f \in Paths : DoSendFile("A", p, f, FALSE, MaxOps)

SpecReenter == InitUnit /\ [][NextReenter]_vars

----------------------------------------------------------------------------
(* SendFile on the UI thread of node A against the io thread, which hands *)
(* the peer's answers to the message callback                             *)

\* the requests for filename sent to peer_id, and the answers to them the
\* io thread has read
RequestsSent(peer_id, filename) ==
  Cardinality({i \in 1..Len(log["A"]) :
                 /\ log["A"][i].ev = "send"
                 /\ log["A"][i].ok
                 /\ log["A"][i].to = peer_id
                 /\ log["A"][i].msg.type = FILE_TRANSFER_REQUEST
                 /\ log["A"][i].msg.filename = filename})

AnswersRead(peer_id, filename) ==
  Cardinality({i \in 1..Len(log["A"]) :
                 /\ log["A"][i].ev = "recv"
                 /\ log["A"][i].msg.sender = peer_id
                 /\ log["A"][i].msg.file_id = filename})

\* SendFile up to the return of SendMessage: the file exists, the request
\* is written to the session; false is returned if it is not. The entry is
\* not yet in the table.
SendFileRequest(peer_id, file_path) ==
  /\ ops < MaxOps
  /\ ~mutex_dead["A"]
  /\ threads["ui"].pc = "idle"
  /\ \E stamp \in Stamps :
       LET s == NodeState("A")
           r == SendFile(s, peer_id, file_path, stamp)
       IN  /\ peer_sessions' = [peer_sessions EXCEPT !["A"] = r.sess]
           /\ tcp' = r.link
           /\ log' = [log EXCEPT !["A"] = r.log]
           /\ threads' =
                IF r.ret = "true"
                  THEN [threads EXCEPT !["ui"] =
                          [pc |-> "emplace", msg |-> NoMessage,
                           peer |-> peer_id, path |-> file_path,
                           size |-> Len(s.fs[file_path])]]
                  ELSE threads
           /\ last' = [op |-> "SendFile", node |-> "A", peer |-> peer_id,
                       path |-> file_path,
                       ret |-> IF r.ret = "true" THEN "-" ELSE r.ret]
  /\ ops' = ops + 1
  /\ UNCHANGED <<pending, wire, outgoing, incoming, fs, chunk_size,
                 mutex_dead, ghostVars, msgVars, appVars, message_callback,
                 is_running>>

\* the rest of SendFile: under the lock the PENDING entry is emplaced;
\* true is returned
SendFileEmplace ==
  /\ threads["ui"].pc = "emplace"
  /\ ~mutex_dead["A"]
  /\ LET t == threads["ui"] IN
       /\ outgoing' = [outgoing EXCEPT !["A"] =
                         MapEmplace(@, <<t.peer, t.path>>,
                                    NewOutgoing(t.peer, t.path, t.size))]
       /\ last' = [op |-> "SendFile", node |-> "A", peer |-> t.peer,
                   path |-> t.path, ret |-> "true"]
  /\ threads' = IdleThreads
  /\ UNCHANGED <<netVars, incoming, fs, chunk_size, mutex_dead, log,
                 ghostVars, ops, msgVars, appVars, message_callback,
                 is_running>>

\* the io thread reads the peer's answer to a request that was sent and
\* hands it to the message callback; known: its key was in the outgoing
\* table when HandleFileTransferComplete looked it up
OnAnswer ==
  /\ ops < MaxOps
  /\ ~mutex_dead["A"]
  /\ \E m \in UnitCompletes, env \in Envs :
       /\ AnswersRead(m.sender, m.file_id) < RequestsSent(m.sender, m.file_id)
       /\ env.accept /\ env.io_ok /\ env.dangling = "intact"
       /\ LET s == Emit(NodeState("A"), [ev |-> "recv", msg |-> m])
              r == HandleMessage(s, m, env)
          IN  Apply("A", r, wire, FALSE,
                    [op |-> "HandleMessage", node |-> "A", msg |-> m,
                     io |-> env.io_ok, cb |-> "file",
                     known |-> <<m.sender, m.file_id>> \in DOMAIN outgoing["A"],
                     ret |-> r.ret], 1)
  /\ UNCHANGED <<pending, appVars, ghostVars>>

NextRace ==
  \/ \E p \in PeerIds, f \in Paths : SendFileRequest(p, f)
  \/ SendFileEmplace
  \/ OnAnswer

SpecRace == InitUnit /\ [][NextRace]_vars

----------------------------------------------------------------------------
(* The network manager of node A; the remote peer is the environment *)

MaxNetOps == 3

SampleChat ==
  [type |-> CHAT_MESSAGE, sender |-> PeerIdOf(2), id |-> MessageIdOf(1),
   timestamp |-> 258, content |-> Str_f]

SampleRequest ==
  [type |-> FILE_TRANSFER_REQUEST, sender |-> PeerIdOf(2), id |-> MessageIdOf(1),
   timestamp |-> 258, file_size |-> 3, filename |-> Str_f]

\* frame bodies a ChatMessage / FileTransferRequestMessage serializes to
WellFormedBodies == {Serialize(SampleChat), Serialize(SampleRequest)}

\* the fixed part of a body of the kind in its first byte: what Deserialize
\* requires before it reads the embedded length
MinimumSize(body) ==
  IF body[1] = CHAT_MESSAGE THEN 1 + PeerIdLen + MessageIdLen + 8 + 4
  ELSE 1 + PeerIdLen + MessageIdLen + 8 + 8 + 4

\* bodies of those kinds cut inside the fixed part (before and after the
\* sender id) and bodies whose embedded length field promises one byte
\* more than the frame holds
MalformedBodies ==
  {SubSeq(b, 1, 1) : b \in WellFormedBodies}
  \cup {SubSeq(b, 1, MinimumSize(b) - 1) : b \in WellFormedBodies}
  \cup {SubSeq(b, 1, Len(b) - 1) : b \in WellFormedBodies}

RawBodies == WellFormedBodies \cup MalformedBodies

\* a network manager that main has started, before any callback is
\* registered and before any connection
InitNet ==
  /\ IdleMsg
  /\ tcp = "none"
  /\ pending = {}
  /\ peer_sessions = [n \in Nodes |-> <<>>]
  /\ wire = [n \in Nodes |-> <<>>]
  /\ outgoing = [n \in Nodes |-> <<>>]
  /\ incoming = [n \in Nodes |-> <<>>]
  /\ fs = [n \in Nodes |-> InitialFiles]
  /\ chunk_size = [n \in Nodes |-> ChunkSize]
  /\ mutex_dead = [n \in Nodes |-> FALSE]
  /\ log = [n \in Nodes |-> <<>>]
  /\ last = [op |-> "init", node |-> "-", ret |-> "void"]
  /\ tainted = [n \in Nodes |-> {}]
  /\ dropped = [n \in Nodes |-> {}]
  /\ ops = 0
  /\ message_callback = [n \in Nodes |-> "none"]
  /\ is_running = [n \in Nodes |-> "running"]
  /\ threads = IdleThreads
  /\ IdleApp

\* the remote peer connects to A's acceptor: the accept completes and its
\* handler is queued on the io context
PeerConnects ==
  /\ tcp = "none"
  /\ is_running["A"] # "stopped"
  /\ tcp' = "up"
  /\ pending' = {"A"}
  /\ last' = [op |-> "PeerConnects", node |-> "A", ret |-> "void"]
  /\ UNCHANGED <<peer_sessions, wire, outgoing, incoming, fs, chunk_size,
                 mutex_dead, log, ghostVars, ops, msgVars, appVars, mgrVars>>

\* the remote peer writes one frame: a 4-byte length prefix and body
PeerWrites(body) ==
  /\ tcp = "up"
  /\ ops < MaxNetOps
  /\ wire' = [wire EXCEPT !["A"] = @ \o ToBE(Len(body), 4) \o body]
  /\ ops' = ops + 1
  /\ last' = [op |-> "PeerWrites", node |-> "A", ret |-> "void"]
  /\ UNCHANGED <<tcp, pending, peer_sessions, outgoing, incoming, fs,
                 chunk_size, mutex_dead, log, ghostVars, msgVars, appVars, mgrVars>>

\* AsioNetworkManager::SetMessageCallback
SetMessageCallback(n, callback) ==
  /\ ops < MaxNetOps
  /\ message_callback' = [message_callback EXCEPT ![n] = callback]
  /\ ops' = ops + 1
  /\ last' = [op |-> "SetMessageCallback", node |-> n, cb |-> callback,
              ret |-> "void"]
  /\ UNCHANGED <<netVars, outgoing, incoming, fs, chunk_size, mutex_dead, log,
                 ghostVars, msgVars, appVars, is_running, threads>>

\* AsioNetworkManager::Stop up to the end of the locked block: _is_running
\* is cleared, every session is closed and the table is emptied. The io
\* thread is still running.
StopClear(n) ==
  /\ is_running[n] = "running"
  /\ is_running' = [is_running EXCEPT ![n] = "stopping"]
  /\ peer_sessions' = [peer_sessions EXCEPT ![n] = <<>>]
  /\ tcp' = IF GetConnectedPeers(n) # {} THEN "down" ELSE tcp
  /\ last' = [op |-> "Stop", node |-> n, ret |-> "running"]
  /\ UNCHANGED <<pending, wire, outgoing, incoming, fs, chunk_size,
                 mutex_dead, log, ghostVars, ops, msgVars, appVars, message_callback,
                 threads>>

\* the rest of Stop: the acceptor is closed, the io context stopped and the
\* io thread joined; Stop returns. No handler runs from here on.
StopReturn(n) ==
  /\ is_running[n] = "stopping"
  /\ is_running' = [is_running EXCEPT ![n] = "stopped"]
  /\ last' = [op |-> "Stop", node |-> n, ret |-> "void"]
  /\ UNCHANGED <<netVars, outgoing, incoming, fs, chunk_size, mutex_dead, log,
                 ghostVars, ops, msgVars, appVars, message_callback, threads>>

\* Stop called on a manager that is not running returns at once
StopAgain(n) ==
  /\ is_running[n] = "stopped"
  /\ last' = [op |-> "Stop", node |-> n, ret |-> "not running"]
  /\ UNCHANGED <<netVars, outgoing, incoming, fs, chunk_size, mutex_dead, log,
                 ghostVars, ops, msgVars, appVars, mgrVars>>

\* the message the application of node A sends
OwnChat ==
  [type |-> CHAT_MESSAGE, sender |-> PeerIdOf(1), id |-> MessageIdOf(1),
   timestamp |-> 258, content |-> Str_f]

\* the application calls AsioNetworkManager::SendMessage(peer_id, m); found
\* is what the lookup under the lock sees
CallSendMessage(n, peer_id, m) ==
  /\ ops < MaxNetOps
  /\ LET r == SendMessage(NodeState(n), peer_id, m)
     IN  Apply(n, r, wire, TRUE,
               [op |-> "SendMessage", node |-> n, peer |-> peer_id, msg |-> m,
                found |-> /\ peer_id \in DOMAIN peer_sessions[n]
                          /\ peer_sessions[n][peer_id].is_connected,
                ret |-> r.log[Len(r.log)].ok], 1)
  /\ UNCHANGED <<ghostVars, pending, appVars>>

NextNet ==
  \/ PeerConnects
  \/ OnConnected("A")
  \/ \E body \in RawBodies : PeerWrites(body)
  \/ ReadMessage("A")
  \/ ReadError("A")
  \/ LinkFails
  \/ \E f \in Callbacks : SetMessageCallback("A", f)
  \/ \E p \in PeerIds : DisconnectFromPeer("A", p)
  \/ \E p \in PeerIds : CallSendMessage("A", p, OwnChat)
  \/ StopClear("A")
  \/ StopReturn("A")
  \/ StopAgain("A")

SpecNet == InitNet /\ [][NextNet]_vars

----------------------------------------------------------------------------
(* Two nodes running main: network manager, chat manager, then the        *)
(* file-transfer manager                                                  *)

MaxChatOps == 2

\* main has run on both nodes up to the registration of the chat manager's
\* handler with the network manager; the file-transfer manager is not yet
\* created
InitChat ==
  /\ IdleMsg
  /\ tcp = "none"
  /\ pending = {}
  /\ peer_sessions = [n \in Nodes |-> <<>>]
  /\ wire = [n \in Nodes |-> <<>>]
  /\ outgoing = [n \in Nodes |-> <<>>]
  /\ incoming = [n \in Nodes |-> <<>>]
  /\ fs = [n \in Nodes |-> InitialFiles]
  /\ chunk_size = [n \in Nodes |-> ChunkSize]
  /\ mutex_dead = [n \in Nodes |-> FALSE]
  /\ log = [n \in Nodes |-> <<>>]
  /\ last = [op |-> "init", node |-> "-", ret |-> "void"]
  /\ tainted = [n \in Nodes |-> {}]
  /\ dropped = [n \in Nodes |-> {}]
  /\ ops = 0
  /\ message_callback = [n \in Nodes |-> "chat"]
  /\ is_running = [n \in Nodes |-> "running"]
  /\ threads = IdleThreads
  /\ IdleApp

\* main: FileTransferFactory::Create(network_manager); the constructor of
\* the file-transfer manager registers its handler as the network
\* manager's message callback
CreateFileTransferManager(n) ==
  /\ message_callback[n] = "chat"
  /\ message_callback' = [message_callback EXCEPT ![n] = "file"]
  /\ last' = [op |-> "FileTransferFactory::Create", node |-> n, ret |-> "void"]
  /\ UNCHANGED <<netVars, outgoing, incoming, fs, chunk_size, mutex_dead, log,
                 ghostVars, ops, msgVars, appVars, is_running, threads>>

\* a chat send that records the message whether or not it was sent
ChatSendAlwaysRecords(n, peer_id, text) ==
  /\ ops < MaxChatOps
  /\ \E stamp \in Stamps :
       LET m == ChatMessage(LocalUserId(n), text, stamp)
           r == SendMessage(NodeState(n), peer_id, m)
       IN  /\ Apply(n, r, wire, TRUE,
                    [op |-> "ChatManager::SendMessage", node |-> n,
                     peer |-> peer_id, content |-> text,
                     timestamp |-> m.timestamp,
                     ret |-> r.log[Len(r.log)].ok], 1)
           /\ chat_history' =
                [chat_history EXCEPT ![n] =
                   PushBack(@, peer_id,
                            ChatInfo(LocalUserId(n), Str_User, text,
                                     m.timestamp))]
  /\ UNCHANGED <<ghostVars, pending, sessions, discVars>>

\* ChatManager::SendMessage(peer_id, text)
ChatSendMessage(n, peer_id, text) ==
  /\ ops < MaxChatOps
  /\ \E stamp \in Stamps :
       LET m == ChatMessage(LocalUserId(n), text, stamp)
           r == SendMessage(NodeState(n), peer_id, m)
           result == r.log[Len(r.log)].ok
       IN  /\ Apply(n, r, wire, TRUE,
                    [op |-> "ChatManager::SendMessage", node |-> n,
                     peer |-> peer_id, content |-> text,
                     timestamp |-> m.timestamp, ret |-> result], 1)
           /\ chat_history' =
                IF result
                  THEN [chat_history EXCEPT ![n] =
                          PushBack(@, peer_id,
                                   ChatInfo(LocalUserId(n), Str_User, text,
                                            m.timestamp))]
                  ELSE chat_history
  /\ UNCHANGED <<ghostVars, pending, sessions, discVars>>

\* the texts the user of node A sends
Texts == {Str_hi, Str_f}

NextChat ==
  \/ ConnectToPeer
  \/ \E n \in Nodes : OnConnected(n)
  \/ \E n \in Nodes : CreateFileTransferManager(n)
  \/ \E p \in PeerIds, text \in Texts : ChatSendMessage("A", p, text)
  \/ \E n \in Nodes : ReadMessage(n)
  \/ \E n \in Nodes : ReadError(n)
  \/ LinkFails

SpecChat == InitChat /\ [][NextChat]_vars

----------------------------------------------------------------------------
(* The network manager of node A with several sessions. The table         *)
(* peer_sessions["A"] holds shared pointers, here indices into sessions;  *)
(* a session object is                                                    *)
(*   peer_id, is_connected   its members                                  *)
(*   link                    "up" until its socket's connection breaks    *)
(*   sent                    the messages written to its socket           *)

MaxSessions == 3
MaxCastOps == 2

\* number of distinct PeerIds the handlers of this node draw from
NumCastIds == 3
CastPeerIds == {PeerIdOf(k) : k \in 1..NumCastIds}

InitCast ==
  /\ InitNet

\* the async_accept handler and the async_connect handler: a PeerId is
\* drawn, the session is created and stored under it, the connection
\* notification is sent on it and the connection callback is called
InsertSession(peer_id, stamp) ==
  /\ is_running["A"] # "stopped"
  /\ Len(sessions) < MaxSessions
  /\ sessions' =
       Append(sessions,
              [peer_id |-> peer_id, is_connected |-> TRUE, link |-> "up",
               sent |-> <<ConnectionMessage(peer_id, CONNECTED, stamp)>>])
  /\ peer_sessions' =
       [peer_sessions EXCEPT !["A"] = MapPut(@, peer_id, Len(sessions) + 1)]
  /\ log' = [log EXCEPT !["A"] =
               Append(@, [ev |-> "connection", peer |-> peer_id,
                          status |-> CONNECTED])]
  /\ last' = [op |-> "InsertSession", node |-> "A", peer |-> peer_id,
              ret |-> "void"]
  /\ UNCHANGED <<tcp, pending, wire, outgoing, incoming, fs, chunk_size,
                 mutex_dead, ghostVars, ops, msgVars, chat_history, discVars,
                 mgrVars>>

\* the connection of session k breaks
SocketFails(k) ==
  /\ sessions[k].link = "up"
  /\ sessions' = [sessions EXCEPT ![k].link = "down"]
  /\ last' = [op |-> "SocketFails", node |-> "A", ret |-> "void"]
  /\ UNCHANGED <<netVars, outgoing, incoming, fs, chunk_size, mutex_dead, log,
                 ghostVars, ops, msgVars, chat_history, discVars, mgrVars>>

\* the read handler of session k gets an error code: Close()
SessionReadError(k) ==
  /\ sessions[k].link = "down"
  /\ sessions[k].is_connected
  /\ sessions' = [sessions EXCEPT ![k].is_connected = FALSE]
  /\ last' = [op |-> "ReadError", node |-> "A", ret |-> "void"]
  /\ UNCHANGED <<netVars, outgoing, incoming, fs, chunk_size, mutex_dead, log,
                 ghostVars, ops, msgVars, chat_history, discVars, mgrVars>>

\* the sessions of T in index order
RECURSIVE InOrder(_)
InOrder(T) ==
  IF T = {} THEN <<>>
  ELSE LET k == CHOOSE x \in T : \A y \in T : x <= y
       IN  <<k>> \o InOrder(T \ {k})

\* AsioNetworkManager::BroadcastMessage, the locked block: the connected
\* sessions of the table are copied into a vector
BroadcastSnapshot(m) ==
  /\ threads["ui"].pc = "idle"
  /\ ops < MaxCastOps
  /\ LET snap == {peer_sessions["A"][p] : p \in
                   {q \in DOMAIN peer_sessions["A"] :
                      sessions[peer_sessions["A"][q]].is_connected}}
     IN  /\ threads' = [threads EXCEPT !["ui"] =
                          [pc |-> "broadcast", msg |-> m, snap |-> snap,
                           todo |-> InOrder(snap)]]
         /\ last' = [op |-> "BroadcastMessage", node |-> "A", msg |-> m,
                     ret |-> "-"]
  /\ ops' = ops + 1
  /\ UNCHANGED <<netVars, outgoing, incoming, fs, chunk_size, mutex_dead, log,
                 ghostVars, msgVars, appVars, message_callback, is_running>>

\* a broadcast loop that stops at the first session whose send fails
BroadcastAbortsOnFailure ==
  /\ threads["ui"].pc = "broadcast"
  /\ threads["ui"].todo # <<>>
  /\ LET k == Head(threads["ui"].todo)
         ok == sessions[k].is_connected /\ sessions[k].link = "up"
     IN  /\ sessions' =
              IF ok
                THEN [sessions EXCEPT ![k].sent = Append(@, threads["ui"].msg)]
                ELSE [sessions EXCEPT ![k].is_connected = FALSE]
         /\ threads' = [threads EXCEPT !["ui"].todo =
                          IF ok THEN Tail(@) ELSE <<>>]
         /\ last' = [op |-> "BroadcastSend", node |-> "A", session |-> k,
                     ret |-> ok]
  /\ UNCHANGED <<netVars, outgoing, incoming, fs, chunk_size, mutex_dead, log,
                 ghostVars, ops, msgVars, chat_history, discVars,
                 message_callback, is_running>>

\* one iteration of the loop of BroadcastMessage: PeerSession::SendMessage
\* on the next session of the vector. A session that is no longer connected
\* returns false; a write that throws closes the session.
BroadcastSend ==
  /\ threads["ui"].pc = "broadcast"
  /\ threads["ui"].todo # <<>>
  /\ LET k == Head(threads["ui"].todo)
         ok == sessions[k].is_connected /\ sessions[k].link = "up"
     IN  /\ sessions' =
              IF ok
                THEN [sessions EXCEPT ![k].sent = Append(@, threads["ui"].msg)]
                ELSE [sessions EXCEPT ![k].is_connected = FALSE]
         /\ threads' = [threads EXCEPT !["ui"].todo = Tail(@)]
         /\ last' = [op |-> "BroadcastSend", node |-> "A", session |-> k,
                     ret |-> ok]
  /\ UNCHANGED <<netVars, outgoing, incoming, fs, chunk_size, mutex_dead, log,
                 ghostVars, ops, msgVars, chat_history, discVars,
                 message_callback, is_running>>

\* BroadcastMessage returns
BroadcastReturn ==
  /\ threads["ui"].pc = "broadcast"
  /\ threads["ui"].todo = <<>>
  /\ threads' = IdleThreads
  /\ last' = [op |-> "BroadcastMessage", node |-> "A",
              msg |-> threads["ui"].msg, snap |-> threads["ui"].snap,
              ret |-> "void"]
  /\ UNCHANGED <<netVars, outgoing, incoming, fs, chunk_size, mutex_dead, log,
                 ghostVars, ops, msgVars, appVars, message_callback,
                 is_running>>

NextCast ==
  \/ \E p \in CastPeerIds, stamp \in Stamps : InsertSession(p, stamp)
  \/ \E k \in 1..Len(sessions) : SocketFails(k)
  \/ \E k \in 1..Len(sessions) : SessionReadError(k)
  \/ BroadcastSnapshot(OwnChat)
  \/ BroadcastSend
  \/ BroadcastReturn

SpecCast == InitCast /\ [][NextCast]_vars

----------------------------------------------------------------------------
(* ChatManager::BroadcastMessage of node A while sessions come and go     *)

\* AsioNetworkManager::GetConnectedPeers when the table holds session
\* objects: the PeerInfo ids of the connected sessions of the table
ConnectedPeerIds ==
  {sessions[peer_sessions["A"][p]].peer_id :
     p \in {q \in DOMAIN peer_sessions["A"] :
              sessions[peer_sessions["A"][q]].is_connected}}

\* ChatManager::BroadcastMessage up to the locked block of
\* AsioNetworkManager::BroadcastMessage: the chat message is built and the
\* connected sessions of the table are copied into a vector; before: how
\* many messages each of them had been sent
ChatBroadcastSnapshot(text) ==
  /\ threads["ui"].pc = "idle"
  /\ ops < MaxCastOps
  /\ \E stamp \in Stamps :
       LET m == ChatMessage(LocalUserId("A"), text, stamp)
           snap == {peer_sessions["A"][p] : p \in
                     {q \in DOMAIN peer_sessions["A"] :
                        sessions[peer_sessions["A"][q]].is_connected}}
       IN  /\ threads' = [threads EXCEPT !["ui"] =
                            [pc |-> "broadcast", msg |-> m, snap |-> snap,
                             todo |-> InOrder(snap),
                             before |-> [k \in snap |-> Len(sessions[k].sent)]]]
           /\ last' = [op |-> "ChatManager::BroadcastMessage", node |-> "A",
                       msg |-> m, ret |-> "-"]
  /\ ops' = ops + 1
  /\ UNCHANGED <<netVars, outgoing, incoming, fs, chunk_size, mutex_dead, log,
                 ghostVars, msgVars, appVars, message_callback, is_running>>

\* the rest of ChatManager::BroadcastMessage, after the network broadcast
\* has returned: under the history lock, GetConnectedPeers is called and
\* the message is pushed to the history of each peer it returns. sent_to:
\* the peers of the sessions the broadcast wrote the message to.
ChatBroadcastRecord ==
  /\ threads["ui"].pc = "broadcast"
  /\ threads["ui"].todo = <<>>
  /\ LET t == threads["ui"]
         info == ChatInfo(LocalUserId("A"), Str_User, t.msg.content,
                          t.msg.timestamp)
         peers == ConnectedPeerIds
     IN  /\ chat_history' =
              [chat_history EXCEPT !["A"] =
                 [k \in DOMAIN @ \cup peers |->
                    IF k \in peers
                      THEN Append(IF k \in DOMAIN @ THEN @[k] ELSE <<>>, info)
                      ELSE @[k]]]
         /\ last' = [op |-> "ChatManager::BroadcastMessage", node |-> "A",
                     msg |-> t.msg,
                     snap |-> {sessions[k].peer_id : k \in t.snap},
                     sent_to |-> {sessions[k].peer_id :
                                    k \in {j \in t.snap :
                                             Len(sessions[j].sent) > t.before[j]}},
                     recorded |-> peers, ret |-> "void"]
  /\ threads' = IdleThreads
  /\ UNCHANGED <<netVars, outgoing, incoming, fs, chunk_size, mutex_dead, log,
                 ghostVars, ops, msgVars, sessions, discVars,
                 message_callback, is_running>>

NextChatCast ==
  \/ \E p \in CastPeerIds, stamp \in Stamps : InsertSession(p, stamp)
  \/ \E k \in 1..Len(sessions) : SocketFails(k)
  \/ \E k \in 1..Len(sessions) : SessionReadError(k)
  \/ \E text \in Texts : ChatBroadcastSnapshot(text)
  \/ BroadcastSend
  \/ ChatBroadcastRecord

SpecChatCast == InitCast /\ [][NextChatCast]_vars

----------------------------------------------------------------------------
(* ConsoleUI of node A: the input thread reads a line and runs the        *)
(* command it names                                                       *)

MaxConsoleOps == 3

\* the commands the constructor registers and their descriptions, in the
\* order of the std::map. The lines followed here name help, peers, or
\* no registered command.
Cmd_help == <<"h", "e", "l", "p">>
Cmd_peers == <<"p", "e", "e", "r", "s">>
Cmd_transfers == <<"t", "r", "a", "n", "s", "f", "e", "r", "s">>
Cmd_chat == <<"c", "h", "a", "t">>
Cmd_connect == <<"c", "o", "n", "n", "e", "c", "t">>
Cmd_exit == <<"e", "x", "i", "t">>
Cmd_send == <<"s", "e", "n", "d">>

RegisteredCommands ==
  << <<Cmd_chat, "Send a chat message to a peer">>,
     <<Cmd_connect, "Connect to a peer">>,
     <<Cmd_exit, "Exit the application">>,
     <<Cmd_help, "Display available commands">>,
     <<Cmd_peers, "List connected peers">>,
     <<Cmd_send, "Send a file to a peer">>,
     <<Cmd_transfers, "List ongoing file transfers">> >>

IsRegistered(command) ==
  \E i \in 1..Len(RegisteredCommands) : RegisteredCommands[i][1] = command

\* the lines typed at the console
ConsoleLines ==
  { <<>>,
    <<"/">>,
    <<"/", " ">>,
    <<"/">> \o Cmd_help,
    <<"/", " ">> \o Cmd_help \o <<" ", "x">>,
    <<"/">> \o Cmd_peers,
    <<"/", "h", "e", "l">>,
    <<"/", "x">> }

\* while (iss >> arg) args.push_back(arg): the words between the blanks
RECURSIVE Words(_)
Words(s) ==
  IF s = <<>> THEN <<>>
  ELSE IF Head(s) = " " THEN Words(Tail(s))
  ELSE LET ends == {i \in 1..Len(s) : s[i] = " "}
           n == IF ends = {} THEN Len(s) + 1
                ELSE CHOOSE i \in ends : \A j \in ends : i <= j
       IN  <<SubSeq(s, 1, n - 1)>> \o Words(SubSeq(s, n, Len(s)))

\* DisplayMessage / DisplayColoredMessage: one line on the console
Display(s, text) == Emit(s, [ev |-> "display", text |-> text])

RECURSIVE DisplayAll(_, _)
DisplayAll(s, texts) ==
  IF texts = <<>> THEN s
  ELSE DisplayAll(Display(s, Head(texts)), Tail(texts))

\* the lines DisplayHelp prints under the lock: one per command
HelpLines ==
  [i \in 1..Len(RegisteredCommands) |->
     <<"  /", RegisteredCommands[i][1], " - ", RegisteredCommands[i][2]>>]

\* ConsoleUI::DisplayHelp: the heading is displayed, then _commands_mutex
\* is locked and the commands are listed. held: the calling thread owns
\* the mutex; relock: what lock() does then. ret = "lock": the thread
\* hangs in lock().
DisplayHelp(s, held, relock) ==
  LET s1 == Display(s, <<"Available commands:">>)
  IN  IF held /\ relock = "deadlock" THEN [s1 EXCEPT !.ret = "lock"]
      ELSE DisplayAll(s1, HelpLines)

\* the handler of /peers: GetConnectedPeers, one line per peer in the
\* order of the table
PeersCommand(s) ==
  LET idx == {i \in 1..NumPeerIds :
                /\ PeerIdOf(i) \in DOMAIN s.sess
                /\ s.sess[PeerIdOf(i)].is_connected}
  IN  IF idx = {} THEN Display(s, <<"No peers connected">>)
      ELSE DisplayAll(Display(s, <<"Connected peers:">>),
                      [j \in 1..Cardinality(idx) |->
                         <<"ID: ", PeerIdOf(InOrder(idx)[j])>>])

\* ConsoleUI::ProcessCommand(input): the first word names the command;
\* _commands_mutex is locked for the lookup and stays locked while the
\* handler runs
ProcessCommand(s, input, relock) ==
  LET args == Words(input)
  IN  IF args = <<>> THEN s
      ELSE
        LET command == args[1]
        IN  CASE ~IsRegistered(command) ->
                   DisplayHelp(Display(s, <<"Unknown command: ", command>>),
                               TRUE, relock)
              [] command = Cmd_help -> DisplayHelp(s, TRUE, relock)
              [] command = Cmd_peers -> PeersCommand(s)

\* one round of ConsoleUI::InputThreadFunc: getline returns line; an empty
\* line is skipped, a line that starts with '/' is a command
InputLine(line, relock) ==
  /\ threads["ui"].pc = "idle"
  /\ ops < MaxConsoleOps
  /\ LET s == NodeState("A")
         r == IF line = <<>> THEN s ELSE ProcessCommand(s, Tail(line), relock)
         args == IF line = <<>> THEN <<>> ELSE Words(Tail(line))
         relocks == args # <<>> /\ (~IsRegistered(args[1]) \/ args[1] = Cmd_help)
     IN  /\ line # <<>> => Head(line) = "/"
         /\ relocks \/ relock = "proceeds"
         /\ log' = [log EXCEPT !["A"] = r.log]
         /\ threads' = IF r.ret = "lock"
                         THEN [threads EXCEPT !["ui"].pc = "lock"]
                         ELSE threads
         /\ last' = [op |-> "ProcessCommand", node |-> "A", line |-> line,
                     args |-> args, relock |-> IF relocks THEN relock ELSE "none",
                     ret |-> r.ret]
  /\ ops' = ops + 1
  /\ UNCHANGED <<netVars, outgoing, incoming, fs, chunk_size, mutex_dead,
                 ghostVars, msgVars, appVars, message_callback, is_running>>

NextConsole ==
  \/ \E line \in ConsoleLines, relock \in {"deadlock", "proceeds"} :
       InputLine(line, relock)
  \/ \E p \in PeerIds : DisconnectFromPeer("A", p)

SpecConsole == InitUnit /\ [][NextConsole]_vars

----------------------------------------------------------------------------
(* PeerDiscovery of one node: the announce loop and the listen loop. Time *)
(* is in whole seconds; it passes while the announce loop sleeps.        *)

DISCOVERY_INTERVAL_SEC == 5
PEER_TIMEOUT_SEC == 30

\* the end of the observed time and the number of announces received
MaxTime == 42
MaxAnnounces == 3

\* sleep_for(1 s) returns after 1 s or later
SleepTimes == {1, 2}

\* the TCP port the node was started with (_port) and another port
LocalPort == 8080
OtherPort == 9090

Loopback == "127.0.0.1"
SenderIps == {Loopback, "10.0.0.2"}

\* the decimal numbers after the colon of a well-formed announce
PortStrs == {LocalPort, OtherPort}

\* uint16_t port = std::stoi(port_str)
ParsePort(port_str) == port_str % 65536

\* peer_key = sender_ip + ":" + port_str
PeerKey(sender_ip, port_str) == <<sender_ip, port_str>>

\* Start has returned: both threads run, the map is empty, the announce
\* loop has sent its first announce
InitDisc ==
  /\ InitNet

\* one sleep_for(1 s) of the announce loop
Sleep(d) ==
  /\ slept < DISCOVERY_INTERVAL_SEC
  /\ now + d <= MaxTime
  /\ now' = now + d
  /\ slept' = slept + 1
  /\ last' = [op |-> "sleep_for", node |-> "A", ret |-> "void"]
  /\ UNCHANGED <<netVars, outgoing, incoming, fs, chunk_size, mutex_dead, log,
                 ghostVars, ops, msgVars, chat_history, sessions,
                 discovered_peers, running, mgrVars>>

\* an announce loop that never erases an entry
TickKeepsAll ==
  /\ slept = DISCOVERY_INTERVAL_SEC
  /\ slept' = 0
  /\ last' = [op |-> "Tick", node |-> "A", erased_after |-> {}, ret |-> "void"]
  /\ UNCHANGED <<netVars, outgoing, incoming, fs, chunk_size, mutex_dead, log,
                 ghostVars, ops, msgVars, chat_history, sessions,
                 discovered_peers, now, running, mgrVars>>

\* the announce loop after its five sleeps: entries last seen more than
\* PEER_TIMEOUT_SEC ago are erased (erased_after: how long after they were
\* last seen); the loop sends the next announce
Tick ==
  /\ slept = DISCOVERY_INTERVAL_SEC
  /\ discovered_peers' =
       [k \in {x \in DOMAIN discovered_peers :
                 ~(now - discovered_peers[x] > PEER_TIMEOUT_SEC)}
          |-> discovered_peers[k]]
  /\ slept' = 0
  /\ last' = [op |-> "Tick", node |-> "A",
              erased_after |-> {now - discovered_peers[x] :
                                  x \in {y \in DOMAIN discovered_peers :
                                           now - discovered_peers[y]
                                             > PEER_TIMEOUT_SEC}},
              ret |-> "void"]
  /\ UNCHANGED <<netVars, outgoing, incoming, fs, chunk_size, mutex_dead, log,
                 ghostVars, ops, msgVars, chat_history, sessions, now,
                 running, mgrVars>>

\* the listen loop receives the announce "LINKNET_DISCOVERY:port_str" from
\* sender_ip
Announce(sender_ip, port_str) ==
  /\ ops < MaxAnnounces
  /\ ops' = ops + 1
  /\ LET port == ParsePort(port_str)
         peer_key == PeerKey(sender_ip, port_str)
         skip == port = LocalPort \/ (sender_ip = Loopback /\ port = LocalPort)
         is_new == peer_key \notin DOMAIN discovered_peers
     IN  /\ discovered_peers' =
              IF skip THEN discovered_peers
              ELSE MapPut(discovered_peers, peer_key, now)
         /\ log' =
              IF ~skip /\ is_new
                THEN [log EXCEPT !["A"] =
                        Append(@, [ev |-> "discovered", ip |-> sender_ip,
                                   port |-> port])]
                ELSE log
         /\ last' = [op |-> "Announce", node |-> "A", ip |-> sender_ip,
                     port_str |-> port_str, ret |-> "void"]
  /\ UNCHANGED <<netVars, outgoing, incoming, fs, chunk_size, mutex_dead,
                 ghostVars, msgVars, chat_history, sessions, now, slept,
                 running, mgrVars>>

NextDisc ==
  \/ \E d \in SleepTimes : Sleep(d)
  \/ Tick
  \/ \E ip \in SenderIps, port_str \in PortStrs : Announce(ip, port_str)

SpecDisc == InitDisc /\ [][NextDisc]_vars

----------------------------------------------------------------------------
(* AsioNetworkManager::Start of node A and the accept chain: the handler  *)
(* of one async_accept posts the next                                     *)

\* the manager as its constructor leaves it: _is_running is false, the
\* acceptor is closed, there is no io thread
InitListen ==
  /\ IdleMsg
  /\ tcp = "none"
  /\ pending = {}
  /\ peer_sessions = [n \in Nodes |-> <<>>]
  /\ wire = [n \in Nodes |-> <<>>]
  /\ outgoing = [n \in Nodes |-> <<>>]
  /\ incoming = [n \in Nodes |-> <<>>]
  /\ fs = [n \in Nodes |-> InitialFiles]
  /\ chunk_size = [n \in Nodes |-> ChunkSize]
  /\ mutex_dead = [n \in Nodes |-> FALSE]
  /\ log = [n \in Nodes |-> <<>>]
  /\ last = [op |-> "init", node |-> "-", ret |-> "void"]
  /\ tainted = [n \in Nodes |-> {}]
  /\ dropped = [n \in Nodes |-> {}]
  /\ ops = 0
  /\ message_callback = [n \in Nodes |-> "none"]
  /\ is_running = [n \in Nodes |-> "stopped"]
  /\ threads = IdleThreads
  /\ chat_history = [n \in Nodes |-> <<>>]
  /\ sessions = <<>>
  /\ discovered_peers = <<>>
  /\ now = 0
  /\ slept = 0
  /\ running = FALSE

\* an async_accept is outstanding on the acceptor
AcceptPending == threads["io"].pc = "accept"

\* Start up to the creation of the io thread: the acceptor listens,
\* StartAccept posts the first async_accept and the io thread runs the
\* context. _is_running is still false.
StartListen ==
  /\ threads["ui"].pc = "idle"
  /\ is_running["A"] = "stopped"
  /\ ~AcceptPending
  /\ sessions = <<>>
  /\ threads' = [threads EXCEPT
                   !["ui"] = [pc |-> "start", msg |-> NoMessage],
                   !["io"] = [pc |-> "accept", msg |-> NoMessage]]
  /\ last' = [op |-> "Start", node |-> "A", ret |-> "-"]
  /\ UNCHANGED <<netVars, outgoing, incoming, fs, chunk_size, mutex_dead, log,
                 ghostVars, ops, msgVars, appVars, message_callback,
                 is_running>>

\* the end of Start: _is_running = true; return true
StartReturn ==
  /\ threads["ui"].pc = "start"
  /\ is_running' = [is_running EXCEPT !["A"] = "running"]
  /\ threads' = [threads EXCEPT !["ui"] = [pc |-> "idle", msg |-> NoMessage]]
  /\ last' = [op |-> "Start", node |-> "A", ret |-> TRUE]
  /\ UNCHANGED <<netVars, outgoing, incoming, fs, chunk_size, mutex_dead, log,
                 ghostVars, ops, msgVars, appVars, message_callback>>

\* Start on a running manager: a warning, return false
StartAgain ==
  /\ threads["ui"].pc = "idle"
  /\ is_running["A"] = "running"
  /\ last' = [op |-> "Start", node |-> "A", ret |-> FALSE]
  /\ UNCHANGED <<netVars, outgoing, incoming, fs, chunk_size, mutex_dead, log,
                 ghostVars, ops, msgVars, appVars, mgrVars>>

\* the io thread after the accept handler: StartAccept is called again
\* only if _is_running reads true
Rearm == [threads EXCEPT !["io"].pc =
            IF is_running["A"] = "running" THEN "accept" ELSE "idle"]

\* the handler of async_accept with no error: a connection came in. A
\* PeerId is drawn, the session stored and started, the notification sent,
\* the connection callback called; then the next accept, if running.
AcceptHandler(peer_id, stamp) ==
  /\ AcceptPending
  /\ Len(sessions) < MaxSessions
  /\ sessions' =
       Append(sessions,
              [peer_id |-> peer_id, is_connected |-> TRUE, link |-> "up",
               sent |-> <<ConnectionMessage(peer_id, CONNECTED, stamp)>>])
  /\ peer_sessions' =
       [peer_sessions EXCEPT !["A"] = MapPut(@, peer_id, Len(sessions) + 1)]
  /\ log' = [log EXCEPT !["A"] =
               Append(@, [ev |-> "connection", peer |-> peer_id,
                          status |-> CONNECTED])]
  /\ threads' = Rearm
  /\ last' = [op |-> "AcceptHandler", node |-> "A", peer |-> peer_id,
              ec |-> FALSE, rearmed |-> is_running["A"] = "running"]
  /\ UNCHANGED <<tcp, pending, wire, outgoing, incoming, fs, chunk_size,
                 mutex_dead, ghostVars, ops, msgVars, chat_history, discVars,
                 message_callback, is_running>>

\* the handler of async_accept with an error code: the error is logged;
\* then the next accept, if running
AcceptError ==
  /\ AcceptPending
  /\ ops < MaxCastOps
  /\ ops' = ops + 1
  /\ threads' = Rearm
  /\ last' = [op |-> "AcceptHandler", node |-> "A", peer |-> <<>>,
              ec |-> TRUE, rearmed |-> is_running["A"] = "running"]
  /\ UNCHANGED <<netVars, outgoing, incoming, fs, chunk_size, mutex_dead, log,
                 ghostVars, msgVars, appVars, message_callback, is_running>>

NextListen ==
  \/ StartListen
  \/ StartReturn
  \/ StartAgain
  \/ \E p \in CastPeerIds, stamp \in Stamps : AcceptHandler(p, stamp)
  \/ AcceptError
  \/ \E k \in 1..Len(sessions) : SocketFails(k)
  \/ \E k \in 1..Len(sessions) : SessionReadError(k)

SpecListen == InitListen /\ [][NextListen]_vars

----------------------------------------------------------------------------
(* PeerDiscovery::Stop of node A against the announce thread and the      *)
(* listen thread                                                          *)

\* the time until which the announce loop is followed while it runs
MaxStopTime == 7

DiscThreads == {"main", "broadcast", "listen"}

\* Start has returned true: _running is set, the announce thread has sent
\* its first announce and sleeps, the listen thread is about to test
\* _running
InitStop ==
  /\ IdleMsg
  /\ tcp = "none"
  /\ pending = {}
  /\ peer_sessions = [n \in Nodes |-> <<>>]
  /\ wire = [n \in Nodes |-> <<>>]
  /\ outgoing = [n \in Nodes |-> <<>>]
  /\ incoming = [n \in Nodes |-> <<>>]
  /\ fs = [n \in Nodes |-> InitialFiles]
  /\ chunk_size = [n \in Nodes |-> ChunkSize]
  /\ mutex_dead = [n \in Nodes |-> FALSE]
  /\ log = [n \in Nodes |-> <<>>]
  /\ last = [op |-> "init", node |-> "-", ret |-> "void"]
  /\ tainted = [n \in Nodes |-> {}]
  /\ dropped = [n \in Nodes |-> {}]
  /\ ops = 0
  /\ message_callback = [n \in Nodes |-> "none"]
  /\ is_running = [n \in Nodes |-> "running"]
  /\ threads = [t \in DiscThreads |->
                  [pc |-> CASE t = "main" -> "idle"
                            [] t = "broadcast" -> "sleep"
                            [] t = "listen" -> "while"]]
  /\ IdleApp

\* Stop has closed both sockets and set the descriptors to -1
SocketsClosed == threads["main"].pc \in {"join_broadcast", "join_listen", "done"}

\* Stop: _running.exchange(false) returned true
StopExchange ==
  /\ threads["main"].pc = "idle"
  /\ running
  /\ running' = FALSE
  /\ threads' = [threads EXCEPT !["main"].pc = "close"]
  /\ last' = [op |-> "PeerDiscovery::Stop", node |-> "A", ret |-> "-"]
  /\ UNCHANGED <<netVars, outgoing, incoming, fs, chunk_size, mutex_dead, log,
                 ghostVars, ops, msgVars, chat_history, sessions,
                 discovered_peers, now, slept, message_callback, is_running>>

\* Stop: _running.exchange(false) returned false; Stop returns at once
StopNotRunning ==
  /\ threads["main"].pc \in {"idle", "done"}
  /\ ~running
  /\ last' = [op |-> "PeerDiscovery::Stop", node |-> "A",
              ret |-> "not running"]
  /\ UNCHANGED <<netVars, outgoing, incoming, fs, chunk_size, mutex_dead, log,
                 ghostVars, ops, msgVars, appVars, mgrVars>>

\* Stop: close(_broadcast_socket), close(_listen_socket). A recvfrom that
\* another thread is blocked in on the closed descriptor either stays
\* blocked (it holds the socket, not the descriptor) or returns an error:
\* woken says which.
StopClose(woken) ==
  /\ threads["main"].pc = "close"
  /\ threads' = [threads EXCEPT
                   !["main"].pc = "join_broadcast",
                   !["listen"].pc = IF @ = "recvfrom" /\ woken
                                      THEN "while" ELSE @]
  /\ last' = [op |-> "close", node |-> "A", woken |-> woken, ret |-> "-"]
  /\ UNCHANGED <<netVars, outgoing, incoming, fs, chunk_size, mutex_dead, log,
                 ghostVars, ops, msgVars, appVars, message_callback,
                 is_running>>

\* Stop: _broadcast_thread.join() returns when the thread has exited
JoinBroadcast ==
  /\ threads["main"].pc = "join_broadcast"
  /\ threads["broadcast"].pc = "exited"
  /\ threads' = [threads EXCEPT !["main"].pc = "join_listen"]
  /\ last' = [op |-> "join", node |-> "A", ret |-> "-"]
  /\ UNCHANGED <<netVars, outgoing, incoming, fs, chunk_size, mutex_dead, log,
                 ghostVars, ops, msgVars, appVars, message_callback,
                 is_running>>

\* Stop: _listen_thread.join() returns when the thread has exited; Stop
\* returns
JoinListen ==
  /\ threads["main"].pc = "join_listen"
  /\ threads["listen"].pc = "exited"
  /\ threads' = [threads EXCEPT !["main"].pc = "done"]
  /\ last' = [op |-> "PeerDiscovery::Stop", node |-> "A", ret |-> "void"]
  /\ UNCHANGED <<netVars, outgoing, incoming, fs, chunk_size, mutex_dead, log,
                 ghostVars, ops, msgVars, appVars, message_callback,
                 is_running>>

\* BroadcastThreadFunc: while (_running): the announce is sent (sendto on
\* a closed descriptor fails and the result is ignored)
BroadcastWhile ==
  /\ threads["broadcast"].pc = "while"
  /\ threads' = [threads EXCEPT !["broadcast"].pc =
                   IF running THEN "sleep" ELSE "exited"]
  /\ slept' = 0
  /\ last' = [op |-> "BroadcastThreadFunc", node |-> "A", ret |-> "-"]
  /\ UNCHANGED <<netVars, outgoing, incoming, fs, chunk_size, mutex_dead, log,
                 ghostVars, ops, msgVars, chat_history, sessions,
                 discovered_peers, now, running, message_callback,
                 is_running>>

\* BroadcastThreadFunc: for (i < DISCOVERY_INTERVAL_SEC && _running)
\* sleep_for(1 s)
BroadcastSleep ==
  /\ threads["broadcast"].pc = "sleep"
  /\ slept < DISCOVERY_INTERVAL_SEC
  /\ running
  /\ now < MaxStopTime
  /\ now' = now + 1
  /\ slept' = slept + 1
  /\ last' = [op |-> "sleep_for", node |-> "A", ret |-> "void"]
  /\ UNCHANGED <<netVars, outgoing, incoming, fs, chunk_size, mutex_dead, log,
                 ghostVars, ops, msgVars, chat_history, sessions,
                 discovered_peers, running, mgrVars>>

\* BroadcastThreadFunc: the sleep loop is left; expired entries are erased
BroadcastCleanup ==
  /\ threads["broadcast"].pc = "sleep"
  /\ slept = DISCOVERY_INTERVAL_SEC \/ ~running
  /\ discovered_peers' =
       [k \in {x \in DOMAIN discovered_peers :
                 ~(now - discovered_peers[x] > PEER_TIMEOUT_SEC)}
          |-> discovered_peers[k]]
  /\ threads' = [threads EXCEPT !["broadcast"].pc = "while"]
  /\ last' = [op |-> "BroadcastThreadFunc", node |-> "A", ret |-> "-"]
  /\ UNCHANGED <<netVars, outgoing, incoming, fs, chunk_size, mutex_dead, log,
                 ghostVars, ops, msgVars, chat_history, sessions, now, slept,
                 running, message_callback, is_running>>

\* ListenThreadFunc: while (_running)
ListenWhile ==
  /\ threads["listen"].pc = "while"
  /\ threads' = [threads EXCEPT !["listen"].pc =
                   IF running THEN "call" ELSE "exited"]
  /\ last' = [op |-> "ListenThreadFunc", node |-> "A", ret |-> "-"]
  /\ UNCHANGED <<netVars, outgoing, incoming, fs, chunk_size, mutex_dead, log,
                 ghostVars, ops, msgVars, appVars, message_callback,
                 is_running>>

\* ListenThreadFunc: recvfrom(_listen_socket, ...) is called: on the open
\* socket the thread blocks, on a closed descriptor the call fails at once
\* and the loop continues
ListenRecvfrom ==
  /\ threads["listen"].pc = "call"
  /\ threads' = [threads EXCEPT !["listen"].pc =
                   IF SocketsClosed THEN "while" ELSE "recvfrom"]
  /\ last' = [op |-> "recvfrom", node |-> "A", ret |-> "-"]
  /\ UNCHANGED <<netVars, outgoing, incoming, fs, chunk_size, mutex_dead, log,
                 ghostVars, ops, msgVars, appVars, message_callback,
                 is_running>>

\* a datagram "LINKNET_DISCOVERY:port_str" from sender_ip reaches the
\* socket the listen thread is blocked on: recvfrom returns, the announce
\* is handled and the loop continues
ListenReceives(sender_ip, port_str) ==
  /\ threads["listen"].pc = "recvfrom"
  /\ ops < MaxAnnounces
  /\ ops' = ops + 1
  /\ LET port == ParsePort(port_str)
         peer_key == PeerKey(sender_ip, port_str)
         skip == port = LocalPort \/ (sender_ip = Loopback /\ port = LocalPort)
         is_new == peer_key \notin DOMAIN discovered_peers
     IN  /\ discovered_peers' =
              IF skip THEN discovered_peers
              ELSE MapPut(discovered_peers, peer_key, now)
         /\ log' =
              IF ~skip /\ is_new
                THEN [log EXCEPT !["A"] =
                        Append(@, [ev |-> "discovered", ip |-> sender_ip,
                                   port |-> port])]
                ELSE log
  /\ threads' = [threads EXCEPT !["listen"].pc = "while"]
  /\ last' = [op |-> "Announce", node |-> "A", ip |-> sender_ip,
              port_str |-> port_str, stopped |-> ~running, ret |-> "void"]
  /\ UNCHANGED <<netVars, outgoing, incoming, fs, chunk_size, mutex_dead,
                 ghostVars, msgVars, chat_history, sessions, now, slept,
                 running, message_callback, is_running>>

\* the steps of the thread that calls Stop
MainSteps ==
  \/ StopExchange
  \/ StopNotRunning
  \/ \E woken \in BOOLEAN : StopClose(woken)
  \/ JoinBroadcast
  \/ JoinListen

\* the steps of the announce thread
BroadcastSteps ==
  \/ BroadcastWhile
  \/ BroadcastSleep
  \/ BroadcastCleanup

\* the steps the listen thread takes by itself
ListenSteps ==
  \/ ListenWhile
  \/ ListenRecvfrom

NextStop ==
  \/ MainSteps
  \/ BroadcastSteps
  \/ ListenSteps
  \/ \E ip \in SenderIps, port_str \in PortStrs : ListenReceives(ip, port_str)

SpecStop == InitStop /\ [][NextStop]_vars

\* every thread that can take a step is scheduled; a call of Stop that has
\* begun goes on; whether a datagram arrives is up to the network
SpecStopFair ==
  /\ SpecStop
  /\ WF_vars(StopClose(FALSE) \/ StopClose(TRUE) \/ JoinBroadcast \/ JoinListen)
  /\ WF_vars(BroadcastSteps)
  /\ WF_vars(ListenSteps)

----------------------------------------------------------------------------
(* Auto-connect of node A: main's discovered-callback calls ConnectToPeer *)
(* for the endpoint the listen thread reports                             *)

\* the announces followed
MaxAutoAnnounces == 2

\* main was started without --no-auto-connect, and g_ui is set before the
\* discovery is started
auto_connect == TRUE

\* AsioNetworkManager::ConnectToPeer(address, port): on a running manager
\* an async_connect is started; its handler has yet to run. connects: the
\* endpoints of the connects under way.
StartConnect(connects, address, port) ==
  IF is_running["A"] = "running" THEN Append(connects, <<address, port>>)
  ELSE connects

\* the connects main's discovered-callback starts for (ip, peer_port): one
\* in the block that reports on the console, one after it
DiscoveredCallback(connects, ip, peer_port) ==
  LET c1 == IF auto_connect THEN StartConnect(connects, ip, peer_port)
            ELSE connects
  IN  IF auto_connect THEN StartConnect(c1, ip, peer_port) ELSE c1

\* the listen loop receives the announce "LINKNET_DISCOVERY:port_str" from
\* sender_ip; on the first sight of the key the discovered-callback runs
AnnounceAutoConnect(sender_ip, port_str) ==
  /\ ops < MaxAutoAnnounces
  /\ ops' = ops + 1
  /\ LET port == ParsePort(port_str)
         peer_key == PeerKey(sender_ip, port_str)
         skip == port = LocalPort \/ (sender_ip = Loopback /\ port = LocalPort)
         is_new == peer_key \notin DOMAIN discovered_peers
     IN  /\ discovered_peers' =
              IF skip THEN discovered_peers
              ELSE MapPut(discovered_peers, peer_key, now)
         /\ log' =
              IF ~skip /\ is_new
                THEN [log EXCEPT !["A"] =
                        Append(@, [ev |-> "discovered", ip |-> sender_ip,
                                   port |-> port])]
                ELSE log
         /\ pending' =
              IF ~skip /\ is_new
                THEN DiscoveredCallback(pending, sender_ip, port)
                ELSE pending
         /\ last' = [op |-> "Announce", node |-> "A", ip |-> sender_ip,
                     port_str |-> port_str, called |-> ~skip /\ is_new,
                     ret |-> "void"]
  /\ UNCHANGED <<tcp, peer_sessions, wire, outgoing, incoming, fs, chunk_size,
                 mutex_dead, ghostVars, msgVars, chat_history, sessions, now,
                 slept, running, mgrVars>>

\* the handler of the i-th async_connect under way. No error: a PeerId is
\* drawn, the session is created on the connected socket and stored, the
\* notification is sent. Error: the error callback is called.
ConnectHandler(i, peer_id, stamp, ec) ==
  /\ i \in 1..Len(pending)
  /\ is_running["A"] # "stopped"
  /\ ec \/ Len(sessions) < MaxSessions
  /\ pending' = SubSeq(pending, 1, i - 1) \o SubSeq(pending, i + 1, Len(pending))
  /\ IF ec
       THEN /\ log' = [log EXCEPT !["A"] =
                         Append(@, [ev |-> "error", endpoint |-> pending[i]])]
            /\ UNCHANGED <<sessions, peer_sessions>>
       ELSE /\ sessions' =
                 Append(sessions,
                        [peer_id |-> peer_id, is_connected |-> TRUE,
                         link |-> "up", endpoint |-> pending[i],
                         sent |-> <<ConnectionMessage(peer_id, CONNECTED,
                                                      stamp)>>])
            /\ peer_sessions' =
                 [peer_sessions EXCEPT !["A"] =
                    MapPut(@, peer_id, Len(sessions) + 1)]
            /\ log' = [log EXCEPT !["A"] =
                         Append(@, [ev |-> "connection", peer |-> peer_id,
                                    status |-> CONNECTED])]
  /\ last' = [op |-> "ConnectHandler", node |-> "A", endpoint |-> pending[i],
              ec |-> ec, ret |-> "void"]
  /\ UNCHANGED <<tcp, wire, outgoing, incoming, fs, chunk_size, mutex_dead,
                 ghostVars, ops, msgVars, chat_history, discVars, mgrVars>>

NextAuto ==
  \/ \E ip \in SenderIps, port_str \in PortStrs : AnnounceAutoConnect(ip, port_str)
  \/ \E i \in 1..Len(pending), p \in PeerIds, stamp \in Stamps,
        ec \in BOOLEAN : ConnectHandler(i, p, stamp, ec)
  \/ \E k \in 1..Len(sessions) : SocketFails(k)
  \/ \E k \in 1..Len(sessions) : SessionReadError(k)

\* the network manager and the discovery are started; no connect is under
\* way
InitAuto ==
  /\ IdleMsg
  /\ tcp = "none"
  /\ pending = <<>>
  /\ peer_sessions = [n \in Nodes |-> <<>>]
  /\ wire = [n \in Nodes |-> <<>>]
  /\ outgoing = [n \in Nodes |-> <<>>]
  /\ incoming = [n \in Nodes |-> <<>>]
  /\ fs = [n \in Nodes |-> InitialFiles]
  /\ chunk_size = [n \in Nodes |-> ChunkSize]
  /\ mutex_dead = [n \in Nodes |-> FALSE]
  /\ log = [n \in Nodes |-> <<>>]
  /\ last = [op |-> "init", node |-> "-", ret |-> "void"]
  /\ tainted = [n \in Nodes |-> {}]
  /\ dropped = [n \in Nodes |-> {}]
  /\ ops = 0
  /\ IdleMgr
  /\ IdleApp

SpecAuto == InitAuto /\ [][NextAuto]_vars

----------------------------------------------------------------------------
(* SodiumCryptoProvider: the encryptions an application performs          *)

MaxCryptoOps == 3

\* the keys, nonces and plaintexts of the calls followed. A random draw
\* (GenerateNonce) yields any nonce.
CryptoKeys == {"k1", "k2"}
Nonces == {"n1", "n2"}
Plaintexts == {Str_hi, Str_f}

\* crypto_secretbox_easy / crypto_box_easy: the authenticated ciphertext
\* of plaintext, determined by the key (or key pair) and the nonce
SecretBox(plaintext, key, nonce) ==
  [box |-> plaintext, key |-> key, nonce |-> nonce]

\* SodiumCryptoProvider::Encrypt(plaintext, key, nonce): the nonce is the
\* caller's
Encrypt(plaintext, key, nonce) == SecretBox(plaintext, key, nonce)

\* SodiumCryptoProvider::AsymmetricEncrypt: nonce is what GenerateNonce
\* returned; the result is the nonce followed by the ciphertext
AsymmetricEncrypt(plaintext, receiver_public_key, sender_private_key, nonce) ==
  <<nonce,
    SecretBox(plaintext, <<receiver_public_key, sender_private_key>>, nonce)>>

\* the application calls Encrypt with a nonce of its choice
CallEncrypt(plaintext, key, nonce) ==
  /\ ops < MaxCryptoOps
  /\ ops' = ops + 1
  /\ log' = [log EXCEPT !["A"] =
               Append(@, [ev |-> "encrypt", op |-> "Encrypt", key |-> key,
                          nonce |-> nonce, plaintext |-> plaintext,
                          out |-> Encrypt(plaintext, key, nonce)])]
  /\ last' = [op |-> "Encrypt", node |-> "A", ret |-> "ciphertext"]
  /\ UNCHANGED <<netVars, outgoing, incoming, fs, chunk_size, mutex_dead,
                 ghostVars, msgVars, appVars, mgrVars>>

\* the application calls AsymmetricEncrypt
CallAsymmetricEncrypt(plaintext, receiver_public_key, sender_private_key) ==
  /\ ops < MaxCryptoOps
  /\ ops' = ops + 1
  /\ \E nonce \in Nonces :
       log' = [log EXCEPT !["A"] =
                 Append(@, [ev |-> "encrypt", op |-> "AsymmetricEncrypt",
                            key |-> <<receiver_public_key, sender_private_key>>,
                            nonce |-> nonce, plaintext |-> plaintext,
                            out |-> AsymmetricEncrypt(plaintext,
                                      receiver_public_key, sender_private_key,
                                      nonce)])]
  /\ last' = [op |-> "AsymmetricEncrypt", node |-> "A", ret |-> "ciphertext"]
  /\ UNCHANGED <<netVars, outgoing, incoming, fs, chunk_size, mutex_dead,
                 ghostVars, msgVars, appVars, mgrVars>>

NextCrypto ==
  \/ \E p \in Plaintexts, k \in CryptoKeys, n \in Nonces : CallEncrypt(p, k, n)
  \/ \E p \in Plaintexts, pk \in CryptoKeys, sk \in CryptoKeys :
       CallAsymmetricEncrypt(p, pk, sk)

SpecCrypto == InitNet /\ [][NextCrypto]_vars

----------------------------------------------------------------------------
(* PeerSession::SendMessage called by two threads on one session of A *)

MaxSends == 3

\* the messages the threads send
SendMessages ==
  {SampleChat, SampleRequest, [SampleChat EXCEPT !.content = Str_empty]}

\* SendMessage up to and including the first asio::write: the caller found
\* the session connected, serialized the message and wrote the 4-byte size
SessionWriteSize(t, peer_id, m) ==
  /\ threads[t].pc = "idle"
  /\ ops < MaxSends
  /\ peer_id \in GetConnectedPeers("A")
  /\ tcp = "up"
  /\ wire' = [wire EXCEPT !["B"] = @ \o ToBE(Len(Serialize(m)), 4)]
  /\ threads' = [threads EXCEPT ![t] = [pc |-> "body", msg |-> m]]
  /\ ops' = ops + 1
  /\ last' = [op |-> "SendMessage", node |-> "A", thread |-> t, ret |-> "-"]
  /\ UNCHANGED <<tcp, pending, peer_sessions, outgoing, incoming, fs,
                 chunk_size, mutex_dead, log, ghostVars, msgVars, appVars,
                 message_callback, is_running>>

\* the second asio::write: the serialized message; SendMessage returns true
SessionWriteBody(t, peer_id) ==
  /\ threads[t].pc = "body"
  /\ tcp = "up"
  /\ wire' = [wire EXCEPT !["B"] = @ \o Serialize(threads[t].msg)]
  /\ threads' = [threads EXCEPT ![t] = [pc |-> "idle", msg |-> NoMessage]]
  /\ log' = [log EXCEPT !["A"] = Append(@, [ev |-> "send", to |-> peer_id,
                                           msg |-> threads[t].msg, ok |-> TRUE])]
  /\ last' = [op |-> "SendMessage", node |-> "A", thread |-> t, ret |-> "true"]
  /\ UNCHANGED <<tcp, pending, peer_sessions, outgoing, incoming, fs,
                 chunk_size, mutex_dead, ghostVars, ops, msgVars, appVars,
                 message_callback, is_running>>

\* the first asio::write throws on the broken connection: Close(),
\* SendMessage returns false
SessionWriteSizeFails(t, peer_id, m) ==
  /\ threads[t].pc = "idle"
  /\ ops < MaxSends
  /\ peer_id \in GetConnectedPeers("A")
  /\ tcp = "down"
  /\ peer_sessions' = [peer_sessions EXCEPT !["A"][peer_id].is_connected = FALSE]
  /\ log' = [log EXCEPT !["A"] = Append(@, [ev |-> "send", to |-> peer_id,
                                           msg |-> m, ok |-> FALSE])]
  /\ ops' = ops + 1
  /\ last' = [op |-> "SendMessage", node |-> "A", thread |-> t, ret |-> "false"]
  /\ UNCHANGED <<tcp, pending, wire, outgoing, incoming, fs, chunk_size,
                 mutex_dead, ghostVars, msgVars, appVars, mgrVars>>

\* the second asio::write throws on the broken connection: Close(),
\* SendMessage returns false
SessionWriteFails(t, peer_id) ==
  /\ threads[t].pc = "body"
  /\ tcp = "down"
  /\ peer_sessions' = [peer_sessions EXCEPT !["A"][peer_id].is_connected = FALSE]
  /\ threads' = [threads EXCEPT ![t] = [pc |-> "idle", msg |-> NoMessage]]
  /\ log' = [log EXCEPT !["A"] = Append(@, [ev |-> "send", to |-> peer_id,
                                           msg |-> threads[t].msg, ok |-> FALSE])]
  /\ last' = [op |-> "SendMessage", node |-> "A", thread |-> t, ret |-> "false"]
  /\ UNCHANGED <<tcp, pending, wire, outgoing, incoming, fs, chunk_size,
                 mutex_dead, ghostVars, ops, msgVars, appVars, message_callback,
                 is_running>>

NextSend ==
  \/ \E t \in Threads, m \in SendMessages : SessionWriteSize(t, PeerIdOf(1), m)
  \/ \E t \in Threads : SessionWriteBody(t, PeerIdOf(1))
  \/ \E t \in Threads, m \in SendMessages :
       SessionWriteSizeFails(t, PeerIdOf(1), m)
  \/ \E t \in Threads : SessionWriteFails(t, PeerIdOf(1))
  \/ LinkFails

SpecSend == InitUnit /\ [][NextSend]_vars

----------------------------------------------------------------------------
(* The sender's chunk loop with the chunk size the constructor sets *)

DEFAULT_CHUNK_SIZE == 16384

\* sizes of the file that is sent: empty, one byte, around one and two
\* chunks, and 50 KiB
FileSizes == {0, 1, DEFAULT_CHUNK_SIZE - 1, DEFAULT_CHUNK_SIZE,
              DEFAULT_CHUNK_SIZE + 1, 2 * DEFAULT_CHUNK_SIZE, 50 * 1024}

\* a regular file of k bytes
FileOfSize(k) == [i \in 1..k |-> i % 251]

MaxChunkOps == 2

\* node A's manager as constructed (_chunk_size = DEFAULT_CHUNK_SIZE), one
\* connected peer, the file to send on disk
InitChunk ==
  /\ IdleMsg
  /\ tcp = "up"
  /\ pending = {}
  /\ peer_sessions = [n \in Nodes |->
        IF n = "A" THEN MapPut(<<>>, PeerIdOf(1),
                             [is_connected |-> TRUE, cb |-> "file"])
                   ELSE <<>>]
  /\ wire = [n \in Nodes |-> <<>>]
  /\ outgoing = [n \in Nodes |-> <<>>]
  /\ incoming = [n \in Nodes |-> <<>>]
  /\ \E k \in FileSizes :
        fs = [n \in Nodes |->
                IF n = "A" THEN [p \in {Str_f} |-> FileOfSize(k)] ELSE <<>>]
  /\ chunk_size = [n \in Nodes |-> DEFAULT_CHUNK_SIZE]
  /\ mutex_dead = [n \in Nodes |-> FALSE]
  /\ log = [n \in Nodes |-> <<>>]
  /\ last = [op |-> "init", node |-> "-", ret |-> "void"]
  /\ tainted = [n \in Nodes |-> {}]
  /\ dropped = [n \in Nodes |-> {}]
  /\ ops = 0
  /\ IdleMgr
  /\ IdleApp

NextChunk ==
  \/ \E p \in PeerIds, f \in {Str_f, Str_x} :
       DoSendFile("A", p, f, FALSE, MaxChunkOps)
  \/ CallStartSendingFile(MaxChunkOps)

SpecChunk == InitChunk /\ [][NextChunk]_vars

----------------------------------------------------------------------------
(* Properties of the file transfer *)

\* nothing is in flight: both connection handlers have run and every frame
\* written has been read
Quiet == pending = {} /\ \A n \in Nodes : wire[n] = <<>>

\* the connection is up and both ends hold a connected session
LinkUp ==
  /\ tcp = "up"
  /\ \A n \in Nodes : \E p \in DOMAIN peer_sessions[n] : peer_sessions[n][p].is_connected

\* the indices of the request events for (peer, filename) in node n's log
RequestEvents(n, peer, filename) ==
  {i \in 1..Len(log[n]) :
     /\ log[n][i].ev = "request"
     /\ log[n][i].peer = peer
     /\ log[n][i].filename = filename}

\* the request callback's answer to the latest request for (peer, filename)
LastAnswer(n, peer, filename) ==
  LET I == RequestEvents(n, peer, filename) IN
  IF I = {} THEN "none"
  ELSE IF log[n][CHOOSE i \in I : \A j \in I : j <= i].accept THEN "accept"
  ELSE "reject"

\* the events the last step appended to node n's log
Appended(n) == SubSeq(log'[n], Len(log[n]) + 1, Len(log'[n]))

IsStatus(e, dir, status) == e.ev = "status" /\ e.dir = dir /\ e.status = status

\* C2: once send_file has succeeded and the receiver has accepted, with the
\* connection up and nothing left in flight, the outgoing transfer has left
\* Pending
C2_AcceptedTransferLeavesPending ==
  \A n \in Nodes : \A key \in DOMAIN outgoing[n] :
    ( /\ Quiet
      /\ LinkUp
      /\ LastAnswer(Other(n), key[1], Filename(key[2])) = "accept"
      /\ <<key[1], Filename(key[2])>> \in DOMAIN incoming[Other(n)] )
    => outgoing[n][key].status # PENDING

C2_Accepted ==
  \E n \in Nodes : \E key \in DOMAIN outgoing[n] :
    /\ Quiet
    /\ LinkUp
    /\ LastAnswer(Other(n), key[1], Filename(key[2])) = "accept"
    /\ <<key[1], Filename(key[2])>> \in DOMAIN incoming[Other(n)]

\* C3: when a chunk completes an incoming transfer whose written chunks all
\* held the source's bytes at their offsets, the received file equals the
\* source
C3_CompletedFileEqualsSource ==
  [][ ( /\ last'.op = "HandleMessage"
        /\ last'.msg.type = FILE_CHUNK
        /\ \E i \in 1..Len(Appended("A")) : IsStatus(Appended("A")[i], "in", COMPLETED)
        /\ <<last'.msg.sender, last'.msg.file_id>> \notin tainted'["A"] )
      => fs'["A"][OutputPath(last'.msg.file_id)] = SourceOf(last'.msg.file_id)
    ]_vars

C3_HonestCompletion ==
  /\ last.op = "HandleMessage"
  /\ last.msg.type = FILE_CHUNK
  /\ <<last.msg.sender, last.msg.file_id>> \notin tainted["A"]
  /\ <<last.msg.sender, last.msg.file_id>> \notin DOMAIN incoming["A"]
  /\ Len(log["A"]) > 0
  /\ log["A"][Len(log["A"])] =
       CompletedEvent(last.msg.sender, OutputPath(last.msg.file_id), TRUE, <<>>)

\* C4: every COMPLETED mark of an incoming transfer comes with a byte total
\* equal to the declared size and is followed by a FileTransferComplete
\* with success=true that was sent to the sender
C4_CompletedExactly ==
  \A i \in 1..Len(log["A"]) :
    IsStatus(log["A"][i], "in", COMPLETED) =>
      /\ log["A"][i].bytes = log["A"][i].size
      /\ i < Len(log["A"])
      /\ log["A"][i + 1].ev = "send"
      /\ log["A"][i + 1].to = log["A"][i].key[1]
      /\ log["A"][i + 1].msg.type = FILE_TRANSFER_COMPLETE
      /\ log["A"][i + 1].msg.success
      /\ log["A"][i + 1].ok

C4_Completed ==
  \E i \in 1..Len(log["A"]) : IsStatus(log["A"][i], "in", COMPLETED)

\* C5: sending the chunks never completes the outgoing transfer: a
\* StartSendingFile step marks nothing COMPLETED and leaves the entry in
\* the table unless it failed
C5_SenderWaitsForReceiver ==
  [][ last'.op = "StartSendingFile" =>
        \A i \in 1..Len(Appended("A")) :
          /\ ~IsStatus(Appended("A")[i], "out", COMPLETED)
          /\ ~(Appended("A")[i].ev = "completed" /\ Appended("A")[i].ok)
    ]_vars

C5_LastChunkSent ==
  /\ last.op = "StartSendingFile"
  /\ \E i \in 1..Len(log["A"]) :
       /\ log["A"][i].ev = "send"
       /\ log["A"][i].ok
       /\ log["A"][i].msg.type = FILE_CHUNK
       /\ (log["A"][i].msg.chunk_index + 1) * ChunkSize >= Len(SourceF)

\* C6: once the receiver's callback has rejected the latest request and
\* nothing is left in flight on a live connection, the sender's outgoing
\* entry is gone and its completion callback has fired with ok=false and a
\* reason containing "reject"
C6_RejectReachesSender ==
  \A n \in Nodes : \A key \in DOMAIN outgoing[n] :
    ~ ( /\ Quiet
        /\ LinkUp
        /\ LastAnswer(Other(n), key[1], Filename(key[2])) = "reject" )

C6_Rejected ==
  \E n \in Nodes : \E key \in DOMAIN outgoing[n] :
    /\ Quiet
    /\ LinkUp
    /\ LastAnswer(Other(n), key[1], Filename(key[2])) = "reject"
    /\ <<key[1], Filename(key[2])>> \notin DOMAIN incoming[Other(n)]
    /\ OutputPath(Filename(key[2])) \notin DOMAIN fs[Other(n)]

\* the step handled chunk message m of the transfer keyed key on node A
ChunkStep == last'.op = "HandleMessage" /\ last'.msg.type = FILE_CHUNK
ChunkKey == <<last'.msg.sender, last'.msg.file_id>>

\* C7: a chunk whose index the transfer already holds changes neither the
\* disk nor the entry (bytes, received set) and calls nothing (no progress,
\* no FileTransferComplete); and a chunk that, after such a drop, brings
\* the byte total to the declared size completes the transfer
C7_DuplicateChunkDropped ==
  [][ ChunkStep /\ ChunkKey \in DOMAIN incoming["A"] =>
        LET t == incoming["A"][ChunkKey] IN
        /\ last'.msg.chunk_index \in t.received_chunks =>
             /\ fs' = fs
             /\ incoming' = incoming
             /\ log' = log
             /\ wire' = wire
        /\ ( /\ ChunkKey \in dropped["A"]
             /\ last'.msg.chunk_index \notin t.received_chunks
             /\ last'.io
             /\ t.bytes_transferred + Len(last'.msg.data) >= t.file_size ) =>
             /\ ChunkKey \notin DOMAIN incoming'["A"]
             /\ \E i \in 1..Len(Appended("A")) :
                  IsStatus(Appended("A")[i], "in", COMPLETED)
             /\ log'["A"][Len(log'["A"])] =
                  CompletedEvent(ChunkKey[1], t.file_path, TRUE, <<>>)
    ]_vars

C7_CompletedAfterDrop ==
  /\ last.op = "HandleMessage"
  /\ last.msg.type = FILE_CHUNK
  /\ <<last.msg.sender, last.msg.file_id>> \in dropped["A"]
  /\ <<last.msg.sender, last.msg.file_id>> \notin DOMAIN incoming["A"]
  /\ Len(log["A"]) > 0
  /\ log["A"][Len(log["A"])] =
       CompletedEvent(last.msg.sender, OutputPath(last.msg.file_id), TRUE, <<>>)

\* C8: an accepted request that declares size 0 is complete when its
\* handler returns: no incoming entry of size 0 is left in the table
C8_EmptyFileCompletesAtOnce ==
  \A n \in Nodes : \A key \in DOMAIN incoming[n] : incoming[n][key].file_size # 0

C8_EmptyFileRequested ==
  \E n \in Nodes : \E i \in 1..Len(log[n]) :
    log[n][i].ev = "request" /\ log[n][i].size = 0 /\ log[n][i].accept

\* the step was CancelTransfer(peer, path) on node A
CancelStep == last'.op = "CancelTransfer" /\ last'.node = "A"
CancelKey == <<last'.peer, last'.path>>

\* the events a cancel of an entry of direction dir appends when its
\* FileTransferComplete goes out (sent) or not
IsCancelNotice(e, peer, file_id, sent) ==
  /\ e.ev = "send"
  /\ e.to = peer
  /\ e.ok = sent
  /\ e.msg.type = FILE_TRANSFER_COMPLETE
  /\ e.msg.file_id = file_id
  /\ ~e.msg.success
  /\ Contains(e.msg.error_message, Str_cancelled)

\* peer has a connected session on node A over a live connection
HasSession(peer) ==
  /\ peer \in DOMAIN peer_sessions["A"]
  /\ peer_sessions["A"][peer].is_connected
  /\ tcp = "up"

\* C9 as stated: an entry of either direction under the key is marked
\* Failed, the cancel notice is sent to the peer and no entry with the
\* key remains in either table; without an entry nothing is sent and the
\* tables are unchanged
C9_CancelClearsBothDirections ==
  [][ CancelStep =>
        IF CancelKey \in DOMAIN outgoing["A"] \/ CancelKey \in DOMAIN incoming["A"]
          THEN /\ Len(Appended("A")) = 2
               /\ Appended("A")[1].ev = "status"
               /\ Appended("A")[1].status = FAILED
               /\ IsCancelNotice(Appended("A")[2], CancelKey[1], CancelKey[2], TRUE)
               /\ CancelKey \notin DOMAIN outgoing'["A"]
               /\ CancelKey \notin DOMAIN incoming'["A"]
          ELSE /\ log' = log
               /\ outgoing' = outgoing
               /\ incoming' = incoming
    ]_vars

\* C9 amended: the outgoing entry under the key, or else the incoming one,
\* is marked Failed and erased, the other table is left as it is, and the
\* cancel notice goes out exactly if peer has a connected session; without
\* an entry nothing is sent and the tables are unchanged
C9_CancelTransfer ==
  [][ CancelStep =>
        IF CancelKey \in DOMAIN outgoing["A"]
          THEN /\ Len(Appended("A")) = 2
               /\ IsStatus(Appended("A")[1], "out", FAILED)
               /\ IsCancelNotice(Appended("A")[2], CancelKey[1], CancelKey[2],
                                 HasSession(CancelKey[1]))
               /\ outgoing'["A"] = MapDel(outgoing["A"], CancelKey)
               /\ incoming' = incoming
        ELSE IF CancelKey \in DOMAIN incoming["A"]
          THEN /\ Len(Appended("A")) = 2
               /\ IsStatus(Appended("A")[1], "in", FAILED)
               /\ IsCancelNotice(Appended("A")[2], CancelKey[1], CancelKey[2],
                                 HasSession(CancelKey[1]))
               /\ incoming'["A"] = MapDel(incoming["A"], CancelKey)
               /\ outgoing' = outgoing
        ELSE /\ log' = log
             /\ outgoing' = outgoing
             /\ incoming' = incoming
             /\ peer_sessions' = peer_sessions
    ]_vars

C9_CancelledOneOfTwo ==
  /\ last.op = "CancelTransfer"
  /\ <<last.peer, last.path>> \in DOMAIN incoming["A"]
  /\ <<last.peer, last.path>> \notin DOMAIN outgoing["A"]
  /\ Len(log["A"]) > 1
  /\ IsStatus(log["A"][Len(log["A"]) - 1], "out", FAILED)
  /\ IsCancelNotice(log["A"][Len(log["A"])], last.peer, last.path, TRUE)

\* the step was SendFile(peer, path) on node n
SendFileStep(n) == last'.op = "SendFile" /\ last'.node = n

\* the successful sends of a FileTransferRequest for key in node n's log
RequestSent(n, key) ==
  \E i \in 1..Len(log'[n]) :
    /\ log'[n][i].ev = "send"
    /\ log'[n][i].ok
    /\ log'[n][i].to = key[1]
    /\ log'[n][i].msg.type = FILE_TRANSFER_REQUEST
    /\ log'[n][i].msg.filename = Filename(key[2])

SessionLost ==
  /\ tcp = "down"
  /\ \A n \in Nodes : \A p \in DOMAIN peer_sessions[n] :
        ~peer_sessions[n][p].is_connected

\* the transfers of n that are still under way
Unfinished(n) ==
  {k \in DOMAIN outgoing[n] : outgoing[n][k].status \in {PENDING, IN_PROGRESS}}
  \cup {k \in DOMAIN incoming[n] : incoming[n][k].status \in {PENDING, IN_PROGRESS}}

\* C11: once the session that carries a transfer is lost and every handler
\* has run (nothing in flight, no completion pending, both read loops have
\* seen the error), neither the sender's outgoing entry nor the receiver's
\* incoming entry is still under way: each has been failed and removed.
C11_SessionLossFailsTransfers ==
  (SessionLost /\ Quiet) => \A n \in Nodes : Unfinished(n) = {}

\* the session was lost while the receiver held an accepted transfer
C11_SessionLostMidTransfer ==
  /\ SessionLost
  /\ Quiet
  /\ \E n \in Nodes : \E e \in {log[n][i] : i \in 1..Len(log[n])} :
        e.ev = "request" /\ e.accept

\* the (peer, file_id) an entry is about
IdentityOf(transfer) == <<transfer.peer_id, transfer.file_id>>

\* the events of n's log that satisfy P
CountEvents(n, P(_)) == Cardinality({i \in 1..Len(log[n]) : P(log[n][i])})

\* C12: in each direction every entry of a node's table is stored under
\* its own (peer, file_id), so no two entries of one table are about the
\* same (peer, file_id), whatever calls and messages came before.
C12_OneEntryPerKey ==
  \A n \in Nodes :
    /\ \A k \in DOMAIN outgoing[n] : IdentityOf(outgoing[n][k]) = k
    /\ \A k \in DOMAIN incoming[n] : IdentityOf(incoming[n][k]) = k
    /\ \A k1, k2 \in DOMAIN outgoing[n] :
          IdentityOf(outgoing[n][k1]) = IdentityOf(outgoing[n][k2]) => k1 = k2
    /\ \A k1, k2 \in DOMAIN incoming[n] :
          IdentityOf(incoming[n][k1]) = IdentityOf(incoming[n][k2]) => k1 = k2

\* SendFile succeeded twice for one key and a request was accepted twice for
\* one key; the entries are in the tables
C12_RepeatedSendAndRequest ==
  /\ \E k \in DOMAIN outgoing["A"] :
        LET IsRequestFor(e) ==
              /\ e.ev = "send" /\ e.ok /\ e.to = k[1]
              /\ e.msg.type = FILE_TRANSFER_REQUEST
              /\ e.msg.filename = Filename(k[2])
        IN  CountEvents("A", IsRequestFor) >= 2
  /\ \E k \in DOMAIN incoming["A"] :
        LET IsAcceptedFor(e) ==
              /\ e.ev = "request" /\ e.accept /\ e.peer = k[1]
              /\ e.filename = k[2]
        IN  CountEvents("A", IsAcceptedFor) >= 2

\* positions of n's log holding a value passed to the progress callback
ProgressAt(n) == {i \in 1..Len(log[n]) : log[n][i].ev = "progress"}

\* positions i < j of n's log are about the same (peer, path)
SamePath(n, i, j) ==
  /\ i < j
  /\ log[n][i].peer = log[n][j].peer
  /\ log[n][i].path = log[n][j].path

\* i and j report on one transfer: no completion for that (peer, path) lies
\* between them
SameTransfer(n, i, j) ==
  /\ SamePath(n, i, j)
  /\ \A c \in (i + 1)..(j - 1) :
        ~(log[n][c].ev = "completed" /\ SamePath(n, i, c))

\* C13: every progress value bytes/total has a non-zero total and bytes no
\* larger than the total (so it lies in 0.0..1.0), the values reported for
\* one transfer never decrease, and a successful completion is preceded by
\* a progress value of that transfer equal to 1.0 with none after it.
C13_ProgressWithinUnitInterval ==
  \A n \in Nodes :
    /\ \A i \in ProgressAt(n) :
          /\ log[n][i].den > 0
          /\ log[n][i].num >= 0
          /\ log[n][i].num <= log[n][i].den
          /\ \A j \in ProgressAt(n) :
                SameTransfer(n, i, j) =>
                  log[n][i].num * log[n][j].den <= log[n][j].num * log[n][i].den
    /\ \A c \in 1..Len(log[n]) :
          (log[n][c].ev = "completed" /\ log[n][c].ok) =>
            \E i \in ProgressAt(n) :
              /\ SamePath(n, i, c)
              /\ log[n][i].num = log[n][i].den
              /\ \A j \in ProgressAt(n) : ~(SamePath(n, i, j) /\ j < c)

\* a receiver was passed a progress value and completed a transfer
C13_ProgressReported ==
  /\ ProgressAt("A") # {}
  /\ \E c \in 1..Len(log["A"]) : log["A"][c].ev = "completed" /\ log["A"][c].ok

\* the FileChunkMessages the step handed to a connected session of n, in
\* order
ChunksSent(n) ==
  LET IsChunk(e) == e.ev = "send" /\ e.ok /\ e.msg.type = FILE_CHUNK
  IN  SelectSeq(Appended(n), IsChunk)

\* the step reported a successful completion on n
CompletedOk(n) ==
  \E i \in 1..Len(Appended(n)) :
    Appended(n)[i].ev = "completed" /\ Appended(n)[i].ok

\* sizes of the chunks of a step, in order
ChunkSizes(n) == [i \in 1..Len(ChunksSent(n)) |-> Len(ChunksSent(n)[i].msg.data)]

\* indices of the chunks of a step, in order
ChunkIndices(n) == [i \in 1..Len(ChunksSent(n)) |-> ChunksSent(n)[i].msg.chunk_index]

StartStep == last'.op = "StartSendingFile" /\ last'.node = "A"

\* C14 (as stated): sending the whole 51 200-byte file with 16 KiB chunks
\* emits exactly chunks 0, 1, 2 of 16 384, 16 384 and 17 792 bytes.
C14_ThreeChunks ==
  [][(StartStep /\ CompletedOk("A") /\ Len(fs["A"][last'.path]) = 50 * 1024) =>
       /\ ChunkIndices("A") = <<0, 1, 2>>
       /\ ChunkSizes("A") = <<16384, 16384, 17792>>]_vars

\* C14 (amended): a run of the chunk loop emits chunks 0, 1, 2, ... in
\* order from next_chunk_index 0, chunk i carrying the file's bytes from
\* offset i * 16384 on, min(16384, size - i * 16384) of them; a run that
\* completes emits ceil(size / 16384) chunks, so the 51 200-byte file goes
\* out as chunks 0..3 of 16 384, 16 384, 16 384 and 2 048 bytes.
C14_ChunkSequence ==
  [][StartStep =>
       LET content == fs["A"][last'.path]
           size    == Len(content)
           cs      == chunk_size["A"]
           sent    == ChunksSent("A")
       IN  /\ \A i \in 1..Len(sent) :
                 /\ sent[i].msg.chunk_index = i - 1
                 /\ Len(sent[i].msg.data) = Min(cs, size - (i - 1) * cs)
                 /\ sent[i].msg.data =
                      SubSeq(content, (i - 1) * cs + 1, Min(i * cs, size))
           /\ CompletedOk("A") => Len(sent) = (size + cs - 1) \div cs
           /\ (CompletedOk("A") /\ size = 50 * 1024) =>
                 /\ ChunkIndices("A") = <<0, 1, 2, 3>>
                 /\ ChunkSizes("A") = <<16384, 16384, 16384, 2048>>]_vars

\* the 51 200-byte file has been sent completely
C14_FiftyKiBSent ==
  /\ last.op = "StartSendingFile"
  /\ Len(fs["A"][Str_f]) = 50 * 1024
  /\ \E i \in 1..Len(log["A"]) : log["A"][i].ev = "completed" /\ log["A"][i].ok
  /\ \E i \in 1..Len(log["A"]) :
        /\ log["A"][i].ev = "send" /\ log["A"][i].ok
        /\ log["A"][i].msg.type = FILE_CHUNK
        /\ log["A"][i].msg.chunk_index = 3

\* the body of the frame at the head of the stream towards n
HeadBody(n) == SubSeq(wire[n], 5, 4 + FromBE(SubSeq(wire[n], 1, 4)))

\* the step is a run of the read handler of a session of n: it consumes the
\* frame at the head of the stream
ReadStep(n) == Len(wire'[n]) < Len(wire[n])

\* the step handed a message to a message callback
Delivered == last'.op \in {"HandleMessage", "Deliver"}

\* C15: when the read handler takes a frame that is shorter than the
\* minimum of its kind or whose embedded length overruns it, no message is
\* delivered to a callback and the session that received it is closed.
C15_MalformedFrameClosesSession ==
  [][(ReadStep("A") /\ HeadBody("A") \in MalformedBodies) =>
       /\ ~Delivered
       /\ GetConnectedPeers("A")' = {}]_vars

\* C15 (delivery only): a malformed frame is never delivered
C15_MalformedFrameNotDelivered ==
  [][(ReadStep("A") /\ HeadBody("A") \in MalformedBodies) => ~Delivered]_vars

\* the read handler has just dropped a frame the factory rejected
C15_MalformedFrameRead ==
  last.op = "ReadMessage" /\ last.node = "A" /\ last.ret = "nullptr"

\* status transitions of peer p reported to n's connection callback
Reports(n, p, status) ==
  LET IsReport(e) == e.ev = "connection" /\ e.peer = p /\ e.status = status
  IN  CountEvents(n, IsReport)

\* a session for p was created on n and is no longer a connected session
\* of n's table
SessionEnded(n, p) ==
  /\ Reports(n, p, CONNECTED) > 0
  /\ p \notin GetConnectedPeers(n)

\* C16: over the life of a session Disconnected is reported to the
\* connection callback exactly once: never before the session has ended,
\* once as soon as it has, whatever ended it.
C16_DisconnectedReportedOnce ==
  \A n \in Nodes : \A p \in PeerIds :
    Reports(n, p, DISCONNECTED) = IF SessionEnded(n, p) THEN 1 ELSE 0

\* a read error has just closed a session
C16_ClosedByReadError ==
  /\ last.op = "ReadError"
  /\ \E p \in PeerIds : SessionEnded("A", p)

\* C18: once SetMessageCallback(f) has returned, a message parsed on any
\* session is delivered to f, the callback in the manager's slot, and to
\* no other.
C18_LastRegistrationWins ==
  [][(/\ ReadStep("A")
      /\ CreateFromBuffer(HeadBody("A")) # NoMessage
      /\ message_callback["A"] # "none") =>
       /\ Delivered
       /\ last'.cb = message_callback["A"]]_vars

\* a parsed message has been delivered after a callback was registered
C18_DeliveredAfterRegistration ==
  /\ last.op \in {"HandleMessage", "Deliver"}
  /\ last.node = "A"
  /\ message_callback["A"] # "none"

\* C19: when Stop has returned the peer table is empty and no session is
\* connected, and a Stop after that changes nothing.
C19_StopLeavesNoSession ==
  [][/\ is_running'["A"] = "stopped" =>
          /\ peer_sessions'["A"] = <<>>
          /\ GetConnectedPeers("A")' = {}
     /\ (is_running["A"] = "stopped" /\ last'.op = "Stop") =>
          UNCHANGED <<netVars, outgoing, incoming, fs, log, mgrVars>>]_vars

\* C19 (second call only): Stop on a stopped manager changes nothing
C19_StopIdempotent ==
  [][(is_running["A"] = "stopped" /\ last'.op = "Stop") =>
       UNCHANGED <<netVars, outgoing, incoming, fs, log, mgrVars>>]_vars

\* Stop has returned after an accept completion ran
C19_StoppedAfterAccept ==
  /\ is_running["A"] = "stopped"
  /\ last.op = "Stop"
  /\ \E p \in PeerIds : Reports("A", p, CONNECTED) > 0

\* C20: DisconnectFromPeer(p) with a session for p in the table closes
\* it, removes it and reports (p, Disconnected) exactly once; without one
\* it leaves the table alone and reports nothing; afterwards p is not
\* among the connected peers.
C20_DisconnectFromPeer ==
  [][(last'.op = "DisconnectFromPeer" /\ last'.node = "A") =>
       LET p == last'.peer IN
       /\ IF p \in DOMAIN peer_sessions["A"]
            THEN /\ peer_sessions'["A"] = MapDel(peer_sessions["A"], p)
                 /\ p \in GetConnectedPeers("A") => tcp' = "down"
                 /\ Appended("A") = <<[ev |-> "connection", peer |-> p,
                                       status |-> DISCONNECTED]>>
            ELSE /\ peer_sessions' = peer_sessions
                 /\ log' = log
       /\ p \notin GetConnectedPeers("A")']_vars

\* a connected session was disconnected, then DisconnectFromPeer was called
\* for a peer without a session
C20_BothCases ==
  /\ last.op = "DisconnectFromPeer"
  /\ last.node = "A"
  /\ \E q \in PeerIds : Reports("A", q, DISCONNECTED) = 1 /\ q # last.peer

\* the frame bodies the remote read loop takes from a byte stream: a
\* 4-byte size, then that many bytes, repeatedly
RECURSIVE FramesOf(_)
FramesOf(stream) ==
  IF Len(stream) < 4 THEN <<>>
  ELSE LET size == FromBE(SubSeq(stream, 1, 4)) IN
       IF Len(stream) < 4 + size THEN <<>>
       ELSE <<SubSeq(stream, 5, 4 + size)>>
            \o FramesOf(SubSeq(stream, 5 + size, Len(stream)))

\* the bodies of the messages for which SendMessage returned true on A, in
\* the order the calls returned
BodiesSent ==
  LET IsSent(e) == e.ev = "send" /\ e.ok
      sent == SelectSeq(log["A"], IsSent)
  IN  [i \in 1..Len(sent) |-> Serialize(sent[i].msg)]

\* how often x occurs in sequence q
Occurrences(q, x) == Cardinality({i \in 1..Len(q) : q[i] = x})

NoSendInProgress == \A t \in Threads : threads[t].pc = "idle"

\* C17: when every SendMessage call on the session has returned, the
\* bytes written to the socket are whole frames, each prefix followed by
\* its own body: the read loop decodes exactly the messages sent, each as
\* often as it was sent.
C17_WholeFramesOnWire ==
  (NoSendInProgress /\ tcp = "up") =>
    LET decoded == FramesOf(wire["B"]) IN
    /\ Len(decoded) = Len(BodiesSent)
    /\ \A i \in 1..Len(BodiesSent) :
          Occurrences(decoded, BodiesSent[i]) = Occurrences(BodiesSent, BodiesSent[i])

\* both threads have completed a SendMessage on the session
C17_BothThreadsSent ==
  /\ NoSendInProgress
  /\ tcp = "up"
  /\ Len(BodiesSent) >= 2
  /\ last.op = "SendMessage"

\* C21: AsioNetworkManager::SendMessage returns false and writes nothing to
\* any socket when the table has no session for peer_id or that session is
\* not connected; it returns true only if the table holds a connected
\* session for peer_id and the frame of the message was written on it
C21_SendNeedsConnectedSession ==
  [][(last'.op = "SendMessage" /\ last'.node = "A") =>
       LET p == last'.peer
           found == /\ p \in DOMAIN peer_sessions["A"]
                    /\ peer_sessions["A"][p].is_connected
       IN  /\ (~found => /\ last'.ret = FALSE
                         /\ wire' = wire
                         /\ peer_sessions' = peer_sessions)
           /\ (last'.ret = TRUE =>
                 /\ found
                 /\ wire'["B"] = wire["B"] \o Frame(last'.msg))]_vars

\* a send to a peer without a connected session returned false after an
\* earlier send had put its frame on the socket, behind the session's
\* connection notification
C21_RefusedAfterSent ==
  /\ last.op = "SendMessage"
  /\ ~last.found
  /\ last.ret = FALSE
  /\ Len(FramesOf(wire["B"])) = 2
  /\ FramesOf(wire["B"])[2] = Serialize(OwnChat)

\* a step in which the network manager hands a message to the chat manager
ChatDelivery == last'.op = "Deliver" /\ last'.cb = "chat"

\* C24: the chat dispatcher consumes an inbound ChatMessage (one history
\* entry named "Unknown" under the sender's id, one call of the chat
\* callback) and forwards an inbound message of any other kind, unchanged,
\* to the next handler
C24_ChatConsumedOthersForwarded ==
  [][ChatDelivery =>
       LET n == last'.node
           m == last'.msg
       IN  IF m.type = CHAT_MESSAGE
             THEN /\ chat_history'[n] =
                       PushBack(chat_history[n], m.sender,
                                ChatInfo(m.sender, Str_Unknown, m.content,
                                         m.timestamp))
                  /\ log'[n] = Append(log[n], [ev |-> "chat",
                                               info |-> ReceivedInfo(m)])
             ELSE /\ chat_history'[n] = chat_history[n]
                  /\ log'[n] = Append(log[n], [ev |-> "next_handler",
                                               msg |-> m])]_vars

\* the chat manager was handed a file-transfer request; it returned
\* without a call to any handler
C24_RequestDropped ==
  /\ last.op = "Deliver"
  /\ last.cb = "chat"
  /\ last.msg = SampleRequest
  /\ chat_history["A"] = <<>>
  /\ \A i \in 1..Len(log["A"]) : log["A"][i].ev \in {"send", "connection"}

\* C25: ChatManager::SendMessage(peer, text) returns true and appends
\* exactly one entry (sender the local id, content text) to the history of
\* peer when the network manager's send succeeds; when the send fails it
\* returns false and no history changes
C25_ChatSendRecordsOnSuccess ==
  [][(last'.op = "ChatManager::SendMessage") =>
       LET n == last'.node
           p == last'.peer
           sent == wire'[Other(n)] # wire[Other(n)]
           old == IF p \in DOMAIN chat_history[n] THEN chat_history[n][p]
                  ELSE <<>>
       IN  /\ last'.ret = sent
           /\ sent =>
                /\ DOMAIN chat_history'[n] = DOMAIN chat_history[n] \cup {p}
                /\ \A q \in DOMAIN chat_history[n] \ {p} :
                     chat_history'[n][q] = chat_history[n][q]
                /\ Len(chat_history'[n][p]) = Len(old) + 1
                /\ SubSeq(chat_history'[n][p], 1, Len(old)) = old
                /\ chat_history'[n][p][Len(old) + 1].sender_id = LocalUserId(n)
                /\ chat_history'[n][p][Len(old) + 1].content = last'.content
           /\ ~sent => chat_history' = chat_history]_vars

\* a chat send failed after an earlier one to the same peer had succeeded
C25_FailedAfterRecorded ==
  /\ last.op = "ChatManager::SendMessage"
  /\ last.ret = FALSE
  /\ last.peer \in DOMAIN chat_history["A"]
  /\ Len(chat_history["A"][last.peer]) = 1

\* both nodes were wired by main before they connected: the callback slot
\* of each network manager, and the copy each session took of it, is the
\* one the file-transfer manager registered last
WiredByMain ==
  \A n \in Nodes :
    /\ message_callback[n] = "file"
    /\ \A p \in DOMAIN peer_sessions[n] : peer_sessions[n][p].cb = "file"

SentHi(e) ==
  /\ e.ev = "send"
  /\ e.ok
  /\ e.msg.type = CHAT_MESSAGE
  /\ e.msg.content = Str_hi

GotHi(e) ==
  /\ e.ev = "chat"
  /\ e.info.content = Str_hi
  /\ e.info.sender_id = LocalUserId("A")

\* C26: in the application as wired by main, once A has sent the chat text
\* "hi" to its session with B and B has read everything A wrote, B's chat
\* callback has fired exactly once with content "hi" and A's id as sender
C26_ChatCallbackFiresOnce ==
  (/\ WiredByMain
   /\ CountEvents("A", SentHi) = 1
   /\ GetConnectedPeers("B") # {}
   /\ wire["B"] = <<>>)
  => CountEvents("B", GotHi) = 1

\* B, wired by main, has read A's "hi": it went to the file-transfer
\* manager's handler and the chat callback was not called
C26_HiReadByFileManager ==
  /\ WiredByMain
  /\ CountEvents("A", SentHi) = 1
  /\ wire["B"] = <<>>
  /\ last.op = "HandleMessage"
  /\ last.node = "B"
  /\ last.msg.type = CHAT_MESSAGE
  /\ CountEvents("B", GotHi) = 0
  /\ chat_history["B"] = <<>>

\* C22: BroadcastMessage sends to every session in the snapshot of the
\* connected sessions taken at the call; a write failure on one session
\* closes only that session, does not end the broadcast, and every other
\* session of the snapshot stays connected and is sent the message
C22_BroadcastContainsFailures ==
  [][/\ (last'.op = "BroadcastMessage" /\ last'.ret = "-") =>
          threads'["ui"].snap =
            {k \in 1..Len(sessions) :
               /\ sessions[k].is_connected
               /\ sessions[k].peer_id \in DOMAIN peer_sessions["A"]
               /\ peer_sessions["A"][sessions[k].peer_id] = k}
     /\ (last'.op = "BroadcastSend") =>
          LET k == last'.session
          IN  /\ k \in threads["ui"].snap
              /\ \A j \in 1..Len(sessions) : j # k => sessions'[j] = sessions[j]
              /\ peer_sessions' = peer_sessions
              /\ ~last'.ret => /\ ~sessions'[k].is_connected
                               /\ sessions'[k].sent = sessions[k].sent
     /\ (last'.op = "BroadcastMessage" /\ last'.ret = "void") =>
          \A k \in last'.snap :
            \/ ~sessions[k].is_connected
            \/ /\ Len(sessions[k].sent) > 1
               /\ sessions[k].sent[Len(sessions[k].sent)] = last'.msg]_vars

\* a broadcast over three sessions has returned: the write failed on the
\* first, which is closed, and the other two were sent the message
C22_OneFailedOthersSent ==
  /\ last.op = "BroadcastMessage"
  /\ last.ret = "void"
  /\ last.snap = {1, 2, 3}
  /\ ~sessions[1].is_connected
  /\ Len(sessions[1].sent) = 1
  /\ \A k \in {2, 3} : sessions[k].is_connected /\ Len(sessions[k].sent) = 2

\* C23: a PeerId is unique among live sessions: every connected session is
\* the one the table holds under its PeerId, so no two live sessions carry
\* the same PeerId and no insertion replaces or orphans a live session
C23_LiveSessionsInTable ==
  \A k \in 1..Len(sessions) :
    sessions[k].is_connected =>
      /\ sessions[k].peer_id \in DOMAIN peer_sessions["A"]
      /\ peer_sessions["A"][sessions[k].peer_id] = k

\* two connected sessions carry the same PeerId; the table holds the newer
\* one only
C23_Replaced ==
  /\ last.op = "InsertSession"
  /\ Len(sessions) = 2
  /\ sessions[1].is_connected /\ sessions[2].is_connected
  /\ sessions[1].link = "up"
  /\ sessions[1].peer_id = sessions[2].peer_id
  /\ peer_sessions["A"] = (sessions[2].peer_id :> 2)

\* the announce received in this step, and what the step did with it
Announced == last'.op = "Announce"
AnnouncedKey == PeerKey(last'.ip, last'.port_str)
SelfEcho == last'.ip = Loopback /\ ParsePort(last'.port_str) = LocalPort
CallbackInvoked ==
  log'["A"] = Append(log["A"], [ev |-> "discovered", ip |-> last'.ip,
                               port |-> ParsePort(last'.port_str)])

\* C27: the discovered-callback is invoked for a key exactly when a
\* well-formed announce (other than the node's own echo) arrives while the
\* key is absent from the map; an announce for a key already in the map
\* only refreshes its last-seen time and invokes no callback
C27_CallbackOnFirstSight ==
  [][(Announced /\ ~SelfEcho) =>
       IF AnnouncedKey \notin DOMAIN discovered_peers
         THEN CallbackInvoked
         ELSE /\ log' = log
              /\ discovered_peers' =
                   [discovered_peers EXCEPT ![AnnouncedKey] = now]]_vars

\* an announce with the local port number arrived from another host while
\* its key was absent; no callback was invoked
C27_FirstSightWithoutCallback ==
  /\ last.op = "Announce"
  /\ last.ip # Loopback
  /\ last.port_str = LocalPort
  /\ log["A"] = <<>>
  /\ discovered_peers = <<>>

C29_OnlyLoopbackEchoIgnored ==
  [][Announced =>
       IF SelfEcho
         THEN discovered_peers' = discovered_peers /\ log' = log
         ELSE /\ AnnouncedKey \in DOMAIN discovered_peers'
              /\ discovered_peers'[AnnouncedKey] = now]_vars

\* an announce from another host with the local port number was received
\* and the map is still empty
C29_SamePortIgnored ==
  /\ last.op = "Announce"
  /\ last.ip = "10.0.0.2"
  /\ ParsePort(last.port_str) = LocalPort
  /\ ops = 1
  /\ discovered_peers = <<>>

\* C36: the sender's chunk loop never locks _transfers_mutex on a thread
\* that already owns it: a StartSendingFile call does not hang, and it
\* sends the file to the end (or fails the transfer) instead of leaving
\* the entry IN_PROGRESS
C36_ChunkLoopNeverRelocks ==
  [][(last'.op = "StartSendingFile" /\ last'.node = "A") =>
       /\ ~mutex_dead'["A"]
       /\ <<last'.peer, last'.path>> \notin DOMAIN outgoing'["A"]]_vars

\* StartSendingFile took the mutex, marked a two-chunk transfer IN_PROGRESS
\* and hangs in the lock() of SendNextChunk: no chunk was sent
C36_HangsBeforeFirstChunk ==
  /\ last.op = "StartSendingFile"
  /\ last.relock = "deadlock"
  /\ mutex_dead["A"]
  /\ <<last.peer, last.path>> \in DOMAIN outgoing["A"]
  /\ outgoing["A"][<<last.peer, last.path>>].status = IN_PROGRESS
  /\ outgoing["A"][<<last.peer, last.path>>].file_size > ChunkSize
  /\ \A i \in 1..Len(log["A"]) :
       ~(log["A"][i].ev = "send" /\ log["A"][i].msg.type = FILE_CHUNK)

\* C37: the PeerId in the sender field of an inbound message is the key,
\* in the receiving node's table, of the connected session the message
\* arrived on, so a reply sent to message.sender is written on that session
C37_SenderIsSessionKey ==
  [][(last'.op = "HandleMessage") =>
       /\ last'.msg.sender \in GetConnectedPeers(last'.node)
       /\ \A i \in 1..Len(Appended(last'.node)) :
            (/\ Appended(last'.node)[i].ev = "send"
             /\ Appended(last'.node)[i].to = last'.msg.sender
             /\ tcp = "up")
            => Appended(last'.node)[i].ok]_vars

\* B rejected A's request and addressed the answer to the sender field,
\* which is no key of B's table: nothing was written
C37_ReplyToUnknownPeer ==
  /\ last.op = "HandleMessage"
  /\ last.node = "B"
  /\ last.msg.type = FILE_TRANSFER_REQUEST
  /\ last.msg.sender \notin DOMAIN peer_sessions["B"]
  /\ GetConnectedPeers("B") # {}
  /\ tcp = "up"
  /\ wire["A"] = <<>>
  /\ log["B"][Len(log["B"])].ev = "send"
  /\ log["B"][Len(log["B"])].to = last.msg.sender
  /\ ~log["B"][Len(log["B"])].ok

\* C38: while the network manager is running (Start has returned true) an
\* async_accept is outstanding on the acceptor, whatever was accepted
\* before Start set the running flag
C38_AcceptPendingWhileRunning ==
  (is_running["A"] = "running" /\ threads["ui"].pc = "idle") => AcceptPending

\* a connection was accepted between the start of the io thread and
\* _is_running = true: the manager runs with one session and no accept
C38_RunningWithoutAccept ==
  /\ is_running["A"] = "running"
  /\ threads["ui"].pc = "idle"
  /\ ~AcceptPending
  /\ Len(sessions) = 1
  /\ sessions[1].is_connected
  /\ Len(log["A"]) = 1

\* C34: a call of PeerDiscovery::Stop that found the discovery running
\* returns: both threads see _running false and exit, also a listen
\* thread that was blocked in recvfrom
C34_StopTerminates ==
  (threads["main"].pc = "close") ~> (threads["main"].pc = "done")

\* Stop waits in _listen_thread.join(): the announce thread has exited,
\* the listen thread is still blocked in the recvfrom it entered before
\* the socket was closed
C34_JoinWaitsForBlockedListener ==
  /\ threads["main"].pc = "join_listen"
  /\ threads["broadcast"].pc = "exited"
  /\ threads["listen"].pc = "recvfrom"
  /\ ~running
  /\ last.op = "join"

\* C32: a file-transfer handler has released _transfers_mutex when it
\* invokes a progress or completion callback, so a callback that calls
\* GetOngoingTransfers gets its answer and the handler returns
C32_CallbacksOutsideLock ==
  [][(last'.op = "HandleMessage" /\ Appended("A") # <<>>) =>
       (~last'.held /\ ~mutex_dead'["A"])]_vars

\* the progress callback of a chunk called GetOngoingTransfers while
\* HandleFileChunk held the mutex: the io thread hangs, the chunk is written
\* and counted, the handler never returns
C32_HangsInProgressCallback ==
  /\ last.op = "HandleMessage"
  /\ last.msg.type = FILE_CHUNK
  /\ last.held
  /\ mutex_dead["A"]
  /\ log["A"][Len(log["A"])].ev = "progress"
  /\ <<last.msg.sender, last.msg.file_id>> \in DOMAIN incoming["A"]
  /\ last.msg.chunk_index \in
       incoming["A"][<<last.msg.sender, last.msg.file_id>>].received_chunks

\* C39: when the io thread handles the FileTransferComplete that answers
\* the one request sent for a file, the outgoing entry of that request is
\* in the table: the answer is not discarded as an unknown transfer
C39_AnswerFindsEntry ==
  [][(/\ last'.op = "HandleMessage"
      /\ last'.msg.type = FILE_TRANSFER_COMPLETE
      /\ RequestsSent(last'.msg.sender, last'.msg.file_id) = 1)
     => <<last'.msg.sender, last'.msg.file_id>> \in DOMAIN outgoing["A"]]_vars

\* SendFile returned true after the answer to its request was discarded:
\* the entry is PENDING and no answer is outstanding
C39_PendingAfterDiscardedAnswer ==
  /\ last.op = "SendFile"
  /\ last.ret = "true"
  /\ threads["ui"].pc = "idle"
  /\ <<last.peer, last.path>> \in DOMAIN outgoing["A"]
  /\ outgoing["A"][<<last.peer, last.path>>].status = PENDING
  /\ RequestsSent(last.peer, last.path) = 1
  /\ AnswersRead(last.peer, last.path) = 1
  /\ \A i \in 1..Len(log["A"]) : log["A"][i].ev # "completed"

\* C33: a chat broadcast appends its history entry for exactly the peers
\* the message was sent to, which are peers of the snapshot the network
\* broadcast used, whatever connects or disconnects during the broadcast
C33_HistoryForPeersSentTo ==
  [][(last'.op = "ChatManager::BroadcastMessage" /\ last'.ret = "void") =>
       /\ last'.recorded = last'.sent_to
       /\ last'.recorded \subseteq last'.snap]_vars

\* a peer was accepted while the broadcast was sending: it was not in the
\* snapshot and was sent nothing, and the history has the message for it
C33_EntryForPeerNotSentTo ==
  /\ last.op = "ChatManager::BroadcastMessage"
  /\ last.ret = "void"
  /\ last.sent_to # {}
  /\ last.sent_to = last.snap
  /\ \E p \in last.recorded :
       /\ p \notin last.snap
       /\ Len(chat_history["A"][p]) = 1
       /\ chat_history["A"][p][1].content = last.msg.content
       /\ \A k \in 1..Len(sessions) :
            sessions[k].peer_id = p => Len(sessions[k].sent) = 1

\* C35: a line that names help, or no registered command, gets the list
\* of commands displayed and the input thread goes back to reading: it
\* does not block on _commands_mutex, which ProcessCommand holds
C35_HelpListsCommandsAndReturns ==
  [][(/\ last'.op = "ProcessCommand"
      /\ last'.args # <<>>
      /\ (last'.args[1] = Cmd_help \/ ~IsRegistered(last'.args[1])))
     => /\ threads'["ui"].pc = "idle"
        /\ Len(Appended("A")) > Len(HelpLines)
        /\ SubSeq(Appended("A"), Len(Appended("A")) - Len(HelpLines) + 1,
                  Len(Appended("A")))
             = [i \in 1..Len(HelpLines) |->
                  [ev |-> "display", text |-> HelpLines[i]]]]_vars

\* /help was entered: the heading was displayed and the input thread
\* hangs in the lock() of DisplayHelp; no command is listed
C35_HelpHangs ==
  /\ last.op = "ProcessCommand"
  /\ last.args = <<Cmd_help>>
  /\ threads["ui"].pc = "lock"
  /\ log["A"] = <<[ev |-> "display", text |-> <<"Available commands:">>]>>

\* the discovered-callback invocations for endpoint ep, and the connects
\* to ep that were started: under way, failed, or ended in a session
Discoveries(ep) ==
  Cardinality({i \in 1..Len(log["A"]) :
                 /\ log["A"][i].ev = "discovered"
                 /\ <<log["A"][i].ip, log["A"][i].port>> = ep})

ConnectsStarted(ep) ==
  Cardinality({i \in 1..Len(pending) : pending[i] = ep})
  + Cardinality({i \in 1..Len(log["A"]) :
                   log["A"][i].ev = "error" /\ log["A"][i].endpoint = ep})
  + Cardinality({k \in 1..Len(sessions) : sessions[k].endpoint = ep})

\* C40: with auto-connect, no more outbound connects to an endpoint are
\* started than the discovered-callback was invoked for it, so there are
\* no more sessions to it either
C40_OneConnectPerDiscovery ==
  \A ip \in SenderIps, port_str \in PortStrs :
    ConnectsStarted(<<ip, ParsePort(port_str)>>)
      <= Discoveries(<<ip, ParsePort(port_str)>>)

\* one announce of one peer was heard, the callback ran once, and the table
\* holds two connected sessions to that peer's endpoint
C40_TwoSessionsFromOneDiscovery ==
  /\ Len(log["A"]) = 3
  /\ log["A"][1].ev = "discovered"
  /\ Len(sessions) = 2
  /\ sessions[1].endpoint = <<log["A"][1].ip, log["A"][1].port>>
  /\ sessions[2].endpoint = sessions[1].endpoint
  /\ sessions[1].peer_id # sessions[2].peer_id
  /\ \A k \in 1..2 :
       /\ sessions[k].is_connected
       /\ sessions[k].peer_id \in DOMAIN peer_sessions["A"]
       /\ peer_sessions["A"][sessions[k].peer_id] = k
  /\ pending = <<>>

\* C31: no two encryptions made through the crypto provider under the
\* same key (or key pair) use the same nonce
C31_NoNonceReuse ==
  \A i, j \in 1..Len(log["A"]) :
    (/\ i < j
     /\ log["A"][i].ev = "encrypt"
     /\ log["A"][j].ev = "encrypt"
     /\ log["A"][i].key = log["A"][j].key)
    => log["A"][i].nonce # log["A"][j].nonce

\* two calls of Encrypt were given one key and one nonce for two different
\* plaintexts
C31_TwoPlaintextsOneNonce ==
  /\ Len(log["A"]) = 2
  /\ log["A"][1].op = "Encrypt"
  /\ log["A"][2].op = "Encrypt"
  /\ log["A"][1].key = log["A"][2].key
  /\ log["A"][1].nonce = log["A"][2].nonce
  /\ log["A"][1].plaintext # log["A"][2].plaintext
  /\ log["A"][1].out.nonce = log["A"][2].out.nonce

----------------------------------------------------------------------------
(* Round trip of one message through Serialize and the frame parser *)

InitMsg ==
  /\ msg_in \in WireMessages
  /\ msg_buf = <<>>
  /\ msg_out = NoMessage
  /\ msg_pc = "new"
  /\ tcp = "none"
  /\ pending = {}
  /\ peer_sessions = [n \in Nodes |-> <<>>]
  /\ wire = [n \in Nodes |-> <<>>]
  /\ outgoing = [n \in Nodes |-> <<>>]
  /\ incoming = [n \in Nodes |-> <<>>]
  /\ fs = [n \in Nodes |-> InitialFiles]
  /\ chunk_size = [n \in Nodes |-> ChunkSize]
  /\ mutex_dead = [n \in Nodes |-> FALSE]
  /\ log = [n \in Nodes |-> <<>>]
  /\ last = [op |-> "init", node |-> "-", ret |-> "void"]
  /\ tainted = [n \in Nodes |-> {}]
  /\ dropped = [n \in Nodes |-> {}]
  /\ ops = 0
  /\ IdleMgr
  /\ IdleApp

DoSerialize ==
  /\ msg_pc = "new"
  /\ msg_buf' = Serialize(msg_in)
  /\ msg_pc' = "serialized"
  /\ UNCHANGED <<msg_in, msg_out, netVars, ftVars, mgrVars, appVars>>

\* PeerSession::ReadMessage's completion handler parsing the frame body
DoParse ==
  /\ msg_pc = "serialized"
  /\ msg_out' = CreateFromBuffer(msg_buf)
  /\ msg_pc' = "parsed"
  /\ UNCHANGED <<msg_in, msg_buf, netVars, ftVars, mgrVars, appVars>>

NextMsg == DoSerialize \/ DoParse

SpecMsg == InitMsg /\ [][NextMsg]_vars

\* C1: every message of every wire kind the program sends comes back equal
\* (kind, sender, message id, timestamp, body) from the frame parser
C1_RoundTripAllKinds ==
  msg_pc = "parsed" => msg_out = msg_in

\* a FileChunkMessage has been through the factory
C1_ChunkParsed == msg_pc = "parsed" /\ msg_in.type = FILE_CHUNK

\* the round trip for the two kinds the factory knows
C1_RoundTripChatAndRequest ==
  (msg_pc = "parsed" /\ msg_in.type \in {CHAT_MESSAGE, FILE_TRANSFER_REQUEST})
    => msg_out = msg_in

\* the kinds the factory has no case for come back as nullptr
C1_OtherKindsDropped ==
  (msg_pc = "parsed" /\ msg_in.type \notin {CHAT_MESSAGE, FILE_TRANSFER_REQUEST})
    => msg_out = NoMessage

====
